---- MODULE Spec2Model ----
(***************************************************************************)
(* Spartan Radio (norayr/spartan-waves): the Broadcaster fan-out hub, the  *)
(* Ogg producer that feeds it, and the Spartan protocol connection         *)
(* handlers, modelled from src/main.go.                                    *)
(*                                                                         *)
(* A frame (one Ogg page) is identified by its position in the publish     *)
(* sequence: the k-th page the producer reads is frame k.  A request line  *)
(* is a sequence of atoms (strings without a space, or the separators      *)
(* " ", "\r", "\n"); the line is their concatenation.                      *)
(***************************************************************************)
EXTENDS Integers, Sequences, FiniteSets, TLC

(* ---- bounds of the model ---------------------------------------------- *)
\* connections accepted plus pages read by the producer, over a whole run
MaxWork == 4
\* the same, in the runs whose liveness is examined
LiveWork == 3
\* capacity of a Subscriber channel: make(Subscriber, 512), scaled down
QueueCap == 1
\* capacity of b.broadcast: make(chan []byte, 4096), scaled down
BroadcastCap == 1
\* longest enumerated request line, in atoms, before its terminating "\n"
MaxLineLen == 4
\* most request-body bytes a client sends after the request line
MaxBody == 2
\* most symbolic links in a music directory
MaxLinks == 2
\* most pages in a byte stream given to the page reader
MaxPages == 2
\* most segments (lacing values) in a page of such a stream
MaxSegs == 2
\* most lines in a playlist file
MaxLines == 4
\* most SetHeader calls while the header cache is read
MaxSets == 2
\* pages fed to one header finder
MaxFed == 4
\* most entries of a playlist the producer loads
MaxList == 2
\* Pace calls on one throttle
MaxPaces == 3
\* deepest nesting of walk calls followed, above the number of directories
MaxDepth == 5

\* the connections main's accept loop hands to handleRequest goroutines,
\* numbered in the order in which their handlers read the request line
Conns == {1, 2}

VARIABLES
  subs,        \* b.subs: the registered subscribers (keyed by connection)
  subCount,    \* b.subCount of the Ogg build (main.go:32)
  subCountAtomic, \* b.subCount of the mp3 build, read by Count() (main.go:604)
  broadcast,   \* b.broadcast: the buffered channel of frames
  header,      \* b.header: the cached header pages, <<>> when none
  queue,       \* queue[s]: the buffer of connection s's Subscriber channel
  closes,      \* closes[s]: how many times close(sub) was called on it
  runPc,       \* Run: "select" (at the select) or "fanout" (in the range loop)
  frame,       \* Run: the frame taken last from b.broadcast (0: none yet)
  todo,        \* Run: subscribers the range loop has not visited yet
  prodPc,      \* streamOgg: "open", "hdrsend", "sethdr" or "bodysend"
  headerBuf,   \* streamOgg: headerBuf, the pages of this file read so far
  vhDone,      \* streamOgg: vh.done()
  read,        \* number of pages read so far; the page in hand is frame read
  pc,          \* pc[s]: position of connection s's handler
  req,         \* req[s]: what the client of connection s sent
  bodyRead,    \* bodyRead[s]: request-body bytes the handler has consumed
  wire,        \* wire[s]: what has been written to the connection, in order
  got,         \* got[s]: the frames the handler has dequeued, in order
  regSent,     \* regSent[s]: value of sent when addSub was handed to Run
  walk,        \* buildOggListFromDir: one call, its arguments and locals
  ogg,         \* readNextOggPage: a reader and the pages returned from it
  pl,          \* readPlaylistFile: one call, its argument and result
  vh,          \* vorbisHeaderFinder: its fields and the pages fed to it
  hc,          \* the header cache step by step: b.hmu, b.header, the callers
  cyc,         \* the producer's outer loop: the list in use, the disk it reads
  th           \* a throttle, the clock it reads and the caller's position

\* the server: Broadcaster, producer and connection handlers
sysVars == <<subs, subCount, subCountAtomic, broadcast, header, queue, closes,
             runPc, frame, todo, prodPc, headerBuf, vhDone, read, pc, req,
             bodyRead, wire, got, regSent>>
\* the functions examined on their own, one call at a time
funVars == <<walk, ogg, pl, vh, hc, cyc, th>>

vars == <<sysVars, funVars>>

bcastVars == <<subs, subCount, subCountAtomic, broadcast, queue, closes,
               runPc, frame, todo>>
prodVars == <<prodPc, headerBuf, vhDone, read>>
connVars == <<pc, req, bodyRead, wire, got, regSent>>

\* the number of frames the producer has handed to b.broadcast
sent == IF prodPc \in {"hdrsend", "bodysend"} THEN read - 1 ELSE read
\* the number of frames Run has taken from b.broadcast
processed == frame
\* the connections accepted and the pages read so far
work == Cardinality({s \in Conns : pc[s] # "accept"}) + read

(* ---- request line parsing (handleRequest, main.go:468-497) ------------ *)
\* the atoms request lines are enumerated over
Atoms == {" ", "/", "/radio", "0", "2", "-", "\r"}
\* the enumerated request lines, without their terminating "\n"
ReqAll == UNION {[1..n -> Atoms] : n \in 0..MaxLineLen}
\* well-formed request lines, longer than the enumerated ones
ReqExtra == { <<"GET", " ", "/radio", " ", "0", "\r">>,
              <<"GET", " ", "/", " ", "0", "\r">>,
              <<"GET", " ", "/index.gmi", " ", "0">>,
              <<"GET", " ", "/index.txt", " ", "2", "\r">>,
              <<"GET", " ", "/missing", " ", "0", "\r">>,
              <<"GET", " ", "/radio", " ", "-", "2">>,
              <<"GET", " ", "/radio", " ", "+", "2">>,
              <<"GET", " ", "/radio", " ", "2", "x">> }
\* what a client may send: the line, whether its "\n" arrives, the body bytes
Requests == [line : ReqAll \cup ReqExtra, complete : BOOLEAN,
             avail : {0, MaxBody}]
\* the requests the connections of the full system send
ReqSample == { [line |-> <<"GET", " ", "/radio", " ", "0", "\r">>,
                complete |-> TRUE, avail |-> 0],
               [line |-> <<"GET", " ", "/radio">>,
                complete |-> TRUE, avail |-> 0],
               [line |-> <<"GET", " ", "/", " ", "0">>,
                complete |-> FALSE, avail |-> 0] }
\* requests of every outcome: the index page, not found, a malformed line, a
\* bad length, a body cut short, and the stream
ReqOutcomes ==
  { [line |-> <<"GET", " ", "/", " ", "0", "\r">>,
     complete |-> TRUE, avail |-> 0],
    [line |-> <<"GET", " ", "/missing", " ", "0", "\r">>,
     complete |-> TRUE, avail |-> 0],
    [line |-> <<"GET", " ", "/radio">>, complete |-> TRUE, avail |-> 0],
    [line |-> <<"GET", " ", "/radio", " ", "-", "2">>,
     complete |-> TRUE, avail |-> 0],
    [line |-> <<"GET", " ", "/radio", " ", "2", "\r">>,
     complete |-> TRUE, avail |-> 0],
    [line |-> <<"GET", " ", "/radio", " ", "0", "\r">>,
     complete |-> TRUE, avail |-> 0] }

NoReq == [line |-> <<>>, complete |-> FALSE, avail |-> 0]

\* strings.TrimRight(line, "\r\n"): drops every trailing "\r" and "\n"
RECURSIVE TrimRight(_)
TrimRight(s) ==
  IF s # <<>> /\ s[Len(s)] \in {"\r", "\n"}
  THEN TrimRight(SubSeq(s, 1, Len(s) - 1))
  ELSE s

\* strings.Split(line, " "): the fields between single spaces, empty ones kept
RECURSIVE Split(_)
Split(s) ==
  IF \E i \in 1..Len(s) : s[i] = " "
  THEN LET i == CHOOSE i \in 1..Len(s) :
                  s[i] = " " /\ \A j \in 1..(i - 1) : s[j] # " "
       IN <<SubSeq(s, 1, i - 1)>> \o Split(SubSeq(s, i + 1, Len(s)))
  ELSE <<s>>

Digits == {"0", "1", "2", "3", "4", "5", "6", "7", "8", "9"}
DigitVal(c) ==
  CASE c = "0" -> 0 [] c = "1" -> 1 [] c = "2" -> 2 [] c = "3" -> 3
    [] c = "4" -> 4 [] c = "5" -> 5 [] c = "6" -> 6 [] c = "7" -> 7
    [] c = "8" -> 8 [] c = "9" -> 9

RECURSIVE DecVal(_)
DecVal(d) ==
  IF d = <<>> THEN 0
  ELSE 10 * DecVal(SubSeq(d, 1, Len(d) - 1)) + DigitVal(d[Len(d)])

\* strconv.Atoi: an optional sign, then one or more decimal digits
AtoiDigits(f) ==
  IF f # <<>> /\ f[1] \in {"+", "-"} THEN SubSeq(f, 2, Len(f)) ELSE f
AtoiOk(f) ==
  /\ AtoiDigits(f) # <<>>
  /\ \A i \in 1..Len(AtoiDigits(f)) : AtoiDigits(f)[i] \in Digits
AtoiVal(f) ==
  IF f[1] = "-" THEN 0 - DecVal(AtoiDigits(f)) ELSE DecVal(AtoiDigits(f))

\* the -host and -port defaults the index page advertises
Host == "localhost"
PortDigits == "300"

Text(strs) == [k |-> "text", v |-> strs]
Hdr(h) == [k |-> "hdr", v |-> h]
Page(n) == [k |-> "page", v |-> <<n>>]

Malformed == Text(<<"4 malformed request line\r\n">>)
BadLength == Text(<<"4 invalid content-length\r\n">>)
BodyError == Text(<<"5 error reading request body\r\n">>)
NotFound == Text(<<"4 not found\r\n">>)
Index == Text(<<"2 text/gemini; charset=utf-8\r\n",
                "Spartan Radio (Ogg Vorbis)\n\n",
                "=> spartan://", Host, ":", PortDigits, "/radio Tune in\n">>)
RadioStatus == Text(<<"2 audio/ogg\r\n">>)

(* ---- initial state: NewBroadcaster, no connection accepted yet -------- *)
SysInit ==
  /\ subs = {}
  /\ subCount = 0
  /\ subCountAtomic = 0
  /\ broadcast = <<>>
  /\ header = <<>>
  /\ queue = [s \in Conns |-> <<>>]
  /\ closes = [s \in Conns |-> 0]
  /\ runPc = "select"
  /\ frame = 0
  /\ todo = {}
  /\ prodPc = "open"
  /\ headerBuf = <<>>
  /\ vhDone = FALSE
  /\ read = 0
  /\ pc = [s \in Conns |-> "accept"]
  /\ req = [s \in Conns |-> NoReq]
  /\ bodyRead = [s \in Conns |-> 0]
  /\ wire = [s \in Conns |-> <<>>]
  /\ got = [s \in Conns |-> <<>>]
  /\ regSent = [s \in Conns |-> 0]

\* no call of the functions examined on their own
Idle == [pc |-> "idle"]

Init ==
  /\ SysInit
  /\ walk = Idle /\ ogg = Idle /\ pl = Idle /\ vh = Idle /\ hc = Idle
  /\ cyc = Idle /\ th = Idle

(* ---- Broadcaster.Run (main.go:44-71, mp3 build main.go:620-647) ------- *)
\* a bug: registering replaces the subscriber map
RunAddSubReset(s) ==
  /\ runPc = "select"
  /\ pc[s] = "add"
  /\ subs' = {s}
  /\ subCount' = subCount + 1
  /\ subCountAtomic' = subCountAtomic + 1
  /\ pc' = [pc EXCEPT ![s] = "stream"]
  /\ regSent' = [regSent EXCEPT ![s] = sent]
  /\ UNCHANGED <<broadcast, header, queue, closes, runPc, frame, todo,
                 prodVars, req, bodyRead, wire, got>>
  /\ UNCHANGED funVars

\* case sub := <-b.addSub: the hand-off from handleRadio and its handling
RunAddSub(s) ==
  /\ runPc = "select"
  /\ pc[s] = "add"
  /\ subs' = subs \cup {s}
  /\ subCount' = subCount + 1
  /\ subCountAtomic' = subCountAtomic + 1
  /\ pc' = [pc EXCEPT ![s] = "stream"]
  /\ regSent' = [regSent EXCEPT ![s] = sent]
  /\ UNCHANGED <<broadcast, header, queue, closes, runPc, frame, todo,
                 prodVars, req, bodyRead, wire, got>>
  /\ UNCHANGED funVars

\* a bug: no membership test before delete and close
RunRemoveSubUnchecked(s) ==
  /\ runPc = "select"
  /\ pc[s] = "remove"
  /\ subs' = subs \ {s}
  /\ closes' = [closes EXCEPT ![s] = @ + 1]
  /\ subCount' = subCount - 1
  /\ subCountAtomic' = subCountAtomic - 1
  /\ pc' = [pc EXCEPT ![s] = "done"]
  /\ UNCHANGED <<broadcast, header, queue, runPc, frame, todo, prodVars,
                 req, bodyRead, wire, got, regSent>>
  /\ UNCHANGED funVars

\* case sub := <-b.removeSub: the deferred hand-off from handleRadio; the
\* handler then runs its remaining defer, conn.Close()
RunRemoveSub(s) ==
  /\ runPc = "select"
  /\ pc[s] = "remove"
  /\ IF s \in subs
     THEN /\ subs' = subs \ {s}
          /\ closes' = [closes EXCEPT ![s] = @ + 1]
          /\ subCount' = subCount - 1
          /\ subCountAtomic' = subCountAtomic - 1
     ELSE UNCHANGED <<subs, closes, subCount, subCountAtomic>>
  /\ pc' = [pc EXCEPT ![s] = "done"]
  /\ UNCHANGED <<broadcast, header, queue, runPc, frame, todo, prodVars,
                 req, bodyRead, wire, got, regSent>>
  /\ UNCHANGED funVars

\* case frame := <-b.broadcast: take the frame, start the range over b.subs
RunBroadcast ==
  /\ runPc = "select"
  /\ broadcast # <<>>
  /\ frame' = Head(broadcast)
  /\ broadcast' = Tail(broadcast)
  /\ todo' = subs
  /\ runPc' = IF subs = {} THEN "select" ELSE "fanout"
  /\ UNCHANGED <<subs, subCount, subCountAtomic, header, queue, closes,
                 prodVars, connVars>>
  /\ UNCHANGED funVars

\* a bug: the channel counts as full one frame early
hasRoomOffByOne(s) == Len(queue[s]) + 1 < QueueCap

\* case sub <- frame: is ready exactly when the channel's buffer is not full
hasRoom(s) == Len(queue[s]) < QueueCap

\* a bug: a full subscriber silently misses the frame and stays registered
RunDeliverDrop(s) ==
  /\ runPc = "fanout"
  /\ s \in todo
  /\ IF hasRoom(s)
     THEN queue' = [queue EXCEPT ![s] = Append(@, frame)]
     ELSE UNCHANGED queue
  /\ todo' = todo \ {s}
  /\ runPc' = IF todo' = {} THEN "select" ELSE "fanout"
  /\ UNCHANGED <<subs, closes, subCountAtomic, subCount, broadcast, header,
                 frame, prodVars, connVars>>
  /\ UNCHANGED funVars

\* a bug: a plain send sub <- frame, which waits for room
RunDeliverBlocking(s) ==
  /\ runPc = "fanout"
  /\ s \in todo
  /\ hasRoom(s)
  /\ queue' = [queue EXCEPT ![s] = Append(@, frame)]
  /\ todo' = todo \ {s}
  /\ runPc' = IF todo' = {} THEN "select" ELSE "fanout"
  /\ UNCHANGED <<subs, closes, subCountAtomic, subCount, broadcast, header,
                 frame, prodVars, connVars>>
  /\ UNCHANGED funVars

\* a bug: the range loop stops at the first eviction
RunDeliverBreak(s) ==
  /\ runPc = "fanout"
  /\ s \in todo
  /\ IF hasRoom(s)
     THEN /\ queue' = [queue EXCEPT ![s] = Append(@, frame)]
          /\ todo' = todo \ {s}
          /\ UNCHANGED <<subs, closes, subCountAtomic>>
     ELSE /\ subs' = subs \ {s}
          /\ closes' = [closes EXCEPT ![s] = @ + 1]
          /\ subCountAtomic' = subCountAtomic - 1
          /\ todo' = {}
          /\ UNCHANGED queue
  /\ runPc' = IF todo' = {} THEN "select" ELSE "fanout"
  /\ UNCHANGED <<subCount, broadcast, header, frame, prodVars, connVars>>
  /\ UNCHANGED funVars

\* a bug: an evicted subscriber's channel is left open
RunDeliverNoClose(s) ==
  /\ runPc = "fanout"
  /\ s \in todo
  /\ IF hasRoom(s)
     THEN /\ queue' = [queue EXCEPT ![s] = Append(@, frame)]
          /\ UNCHANGED <<subs, subCountAtomic>>
     ELSE /\ subs' = subs \ {s}
          /\ subCountAtomic' = subCountAtomic - 1
          /\ UNCHANGED queue
  /\ todo' = todo \ {s}
  /\ runPc' = IF todo' = {} THEN "select" ELSE "fanout"
  /\ UNCHANGED <<closes, subCount, broadcast, header, frame, prodVars,
                 connVars>>
  /\ UNCHANGED funVars

\* one iteration of the range loop: select { case sub <- frame: default: }
RunDeliver(s) ==
  /\ runPc = "fanout"
  /\ s \in todo
  /\ IF hasRoom(s)
     THEN /\ queue' = [queue EXCEPT ![s] = Append(@, frame)]
          /\ UNCHANGED <<subs, closes, subCountAtomic>>
     ELSE /\ subs' = subs \ {s}
          /\ closes' = [closes EXCEPT ![s] = @ + 1]
          /\ subCountAtomic' = subCountAtomic - 1
          /\ UNCHANGED queue
  /\ todo' = todo \ {s}
  /\ runPc' = IF todo' = {} THEN "select" ELSE "fanout"
  /\ UNCHANGED <<subCount, broadcast, header, frame, prodVars, connVars>>
  /\ UNCHANGED funVars

(* ---- header cache (main.go:73-88) ------------------------------------- *)
SetHeader(h) == header' = h

\* nil (modelled <<>>) when the cache is empty, otherwise a copy of it
GetHeaderCopy == IF Len(header) = 0 THEN <<>> ELSE header

(* ---- streamOgg, the per-file loop (main.go:385-435) ------------------- *)
(* The producer shares b.broadcast and b.header with the other goroutines; *)
(* opening, reading and parsing a file are its own.  Each action below is  *)
(* one operation on shared state (or os.Open) followed by the producer's   *)
(* own code up to its next such operation.  What a file holds is an input: *)
(* every read may return a page or fail, and every page fed to the header  *)
(* finder may or may not complete the third header packet.                 *)

\* the second loop: readNextOggPage, until an error ends the file (f.Close)
bodyLoop ==
  \/ /\ work < MaxWork
     /\ read' = read + 1
     /\ prodPc' = "bodysend"
  \/ /\ prodPc' = "open"
     /\ UNCHANGED read

\* for !vh.done(): readNextOggPage, vh.feedPage(page), headerBuf.Write(page);
\* on a read error the loop breaks, SetHeader is skipped (vh.done() is false)
\* and the second loop starts
hdrLoop(buf) ==
  \/ /\ work < MaxWork
     /\ read' = read + 1
     /\ headerBuf' = Append(buf, read + 1)
     /\ vhDone' \in BOOLEAN
     /\ prodPc' = "hdrsend"
  \/ /\ headerBuf' = buf
     /\ vhDone' = FALSE
     /\ bodyLoop

\* os.Open(fpath): a failure skips to the next playlist entry; the model
\* opens files only while it has pages left to read
ProdOpen ==
  /\ prodPc = "open"
  /\ work < MaxWork
  /\ \/ hdrLoop(<<>>)
     \/ UNCHANGED <<prodPc, headerBuf, vhDone, read>>
  /\ UNCHANGED <<bcastVars, header, connVars>>
  /\ UNCHANGED funVars

\* b.broadcast <- page in the first loop (blocks while the buffer is full),
\* then th.Pace and the loop test
ProdSendHdr ==
  /\ prodPc = "hdrsend"
  /\ Len(broadcast) < BroadcastCap
  /\ broadcast' = Append(broadcast, read)
  /\ IF vhDone
     THEN prodPc' = "sethdr" /\ UNCHANGED <<headerBuf, vhDone, read>>
     ELSE hdrLoop(headerBuf)
  /\ UNCHANGED <<subs, subCount, subCountAtomic, header, queue, closes,
                 runPc, frame, todo, connVars>>
  /\ UNCHANGED funVars

\* a bug: the page in hand is cached, not the pages gathered
ProdSetHeaderLastPage ==
  /\ prodPc = "sethdr"
  /\ IF Len(headerBuf) > 0 /\ vhDone
     THEN SetHeader(<<read>>)
     ELSE UNCHANGED header
  /\ bodyLoop
  /\ UNCHANGED <<bcastVars, headerBuf, vhDone, connVars>>
  /\ UNCHANGED funVars

\* if headerBuf.Len() > 0 && vh.done() { b.SetHeader(headerBuf.Bytes()) }
ProdSetHeader ==
  /\ prodPc = "sethdr"
  /\ IF Len(headerBuf) > 0 /\ vhDone
     THEN SetHeader(headerBuf)
     ELSE UNCHANGED header
  /\ bodyLoop
  /\ UNCHANGED <<bcastVars, headerBuf, vhDone, connVars>>
  /\ UNCHANGED funVars

\* b.broadcast <- page in the second loop, then th.Pace and the next read
ProdSendBody ==
  /\ prodPc = "bodysend"
  /\ Len(broadcast) < BroadcastCap
  /\ broadcast' = Append(broadcast, read)
  /\ bodyLoop
  /\ UNCHANGED <<subs, subCount, subCountAtomic, header, queue, closes,
                 runPc, frame, todo, headerBuf, vhDone, connVars>>
  /\ UNCHANGED funVars

(* ---- handleRequest (main.go:465-512, mp3 build main.go:892-944) ------- *)
\* a bug: only too few fields are rejected
malformedLineLt(parts) == Len(parts) < 3

\* if len(parts) != 3
malformedLine(parts) == Len(parts) # 3

\* a bug: a negative length is let through
invalidLengthUnsigned(lenStr) == ~AtoiOk(lenStr)

\* contentLen, err := strconv.Atoi(lenStr); if err != nil || contentLen < 0
invalidLength(lenStr) == ~AtoiOk(lenStr) \/ AtoiVal(lenStr) < 0

\* a bug: only "/" serves the index page
isIndexPathRootOnly(path) == path = <<"/">>

\* case "/", "/index.gmi", "/index.txt":
isIndexPath(path) == path \in {<<"/">>, <<"/index.gmi">>, <<"/index.txt">>}

\* the client sends r.line, then "\n" if r.complete, then r.avail body bytes,
\* and closes its sending side
handleRequest(s, r) ==
  /\ pc[s] = "accept"
  /\ \A t \in Conns : t < s => pc[t] # "accept"
  /\ work < MaxWork
  /\ req' = [req EXCEPT ![s] = r]
  /\ LET parts == Split(TrimRight(r.line \o <<"\n">>))
         reply(m) == /\ wire' = [wire EXCEPT ![s] = Append(@, m)]
                     /\ pc' = [pc EXCEPT ![s] = "done"]
     IN IF ~r.complete
        THEN /\ pc' = [pc EXCEPT ![s] = "done"]
             /\ UNCHANGED <<wire, bodyRead>>
        ELSE IF malformedLine(parts)
        THEN reply(Malformed) /\ UNCHANGED bodyRead
        ELSE IF invalidLength(parts[3])
        THEN reply(BadLength) /\ UNCHANGED bodyRead
        ELSE IF AtoiVal(parts[3]) > r.avail
        THEN reply(BodyError) /\ bodyRead' = [bodyRead EXCEPT ![s] = r.avail]
        ELSE /\ bodyRead' = [bodyRead EXCEPT ![s] = AtoiVal(parts[3])]
             /\ IF isIndexPath(parts[2])
                THEN reply(Index)
                ELSE IF parts[2] = <<"/radio">>
                THEN /\ pc' = [pc EXCEPT ![s] = "radio"]
                     /\ UNCHANGED wire
                ELSE reply(NotFound)
  /\ UNCHANGED <<bcastVars, header, prodVars, got, regSent>>
  /\ UNCHANGED funVars

(* ---- handleRadio (main.go:440-463) ------------------------------------ *)
\* a bug: the stream starts without its status line
handleRadioStatusOmitted(s) ==
  /\ pc[s] = "radio"
  /\ pc' = [pc EXCEPT ![s] = "hdr"]
  /\ UNCHANGED <<bcastVars, header, prodVars, req, bodyRead, wire, got,
                 regSent>>
  /\ UNCHANGED funVars

\* fmt.Fprintf(conn, "2 audio/ogg\r\n"); a failed write ends the handler
handleRadioStatus(s) ==
  /\ pc[s] = "radio"
  /\ \E ok \in BOOLEAN :
       IF ok
       THEN /\ wire' = [wire EXCEPT ![s] = Append(@, RadioStatus)]
            /\ pc' = [pc EXCEPT ![s] = "hdr"]
       ELSE /\ pc' = [pc EXCEPT ![s] = "done"]
            /\ UNCHANGED wire
  /\ UNCHANGED <<bcastVars, header, prodVars, req, bodyRead, got, regSent>>
  /\ UNCHANGED funVars

\* a bug: the cached header is never sent
handleRadioHeaderSkip(s) ==
  /\ pc[s] = "hdr"
  /\ pc' = [pc EXCEPT ![s] = "add"]
  /\ UNCHANGED <<bcastVars, header, prodVars, req, bodyRead, wire, got,
                 regSent>>
  /\ UNCHANGED funVars

\* if hdr := b.GetHeaderCopy(); len(hdr) > 0 { conn.Write(hdr) }
handleRadioHeader(s) ==
  /\ pc[s] = "hdr"
  /\ IF Len(GetHeaderCopy) > 0
     THEN \E ok \in BOOLEAN :
            IF ok
            THEN /\ wire' = [wire EXCEPT ![s] = Append(@, Hdr(GetHeaderCopy))]
                 /\ pc' = [pc EXCEPT ![s] = "add"]
            ELSE /\ pc' = [pc EXCEPT ![s] = "done"]
                 /\ UNCHANGED wire
     ELSE /\ pc' = [pc EXCEPT ![s] = "add"]
          /\ UNCHANGED wire
  /\ UNCHANGED <<bcastVars, header, prodVars, req, bodyRead, got, regSent>>
  /\ UNCHANGED funVars

\* for page := range sub { conn.Write(page) }: one received page
handleRadioRecv(s) ==
  /\ pc[s] = "stream"
  /\ queue[s] # <<>>
  /\ queue' = [queue EXCEPT ![s] = Tail(@)]
  /\ got' = [got EXCEPT ![s] = Append(@, Head(queue[s]))]
  /\ \E ok \in BOOLEAN :
       IF ok
       THEN /\ wire' = [wire EXCEPT ![s] = Append(@, Page(Head(queue[s])))]
            /\ UNCHANGED pc
       ELSE /\ pc' = [pc EXCEPT ![s] = "remove"]
            /\ UNCHANGED wire
  /\ UNCHANGED <<subs, subCount, subCountAtomic, broadcast, header, closes,
                 runPc, frame, todo, prodVars, req, bodyRead, regSent>>
  /\ UNCHANGED funVars

\* the range loop ends: the channel is closed and drained
handleRadioClosed(s) ==
  /\ pc[s] = "stream"
  /\ queue[s] = <<>>
  /\ closes[s] > 0
  /\ pc' = [pc EXCEPT ![s] = "remove"]
  /\ UNCHANGED <<bcastVars, header, prodVars, req, bodyRead, wire, got,
                 regSent>>
  /\ UNCHANGED funVars

(* ---- buildOggListFromDir (main.go:190-253) ---------------------------- *)
(* A music directory is a fixed tree of real directories and files plus a  *)
(* set of symbolic links, which is the input.  Paths are sequences of      *)
(* names below the root; the root is <<>>.  A link's target is the         *)
(* canonical path of a directory or of a file, or a path that is missing.  *)
RealDirs == {<<>>, <<"a">>, <<"b">>, <<"a", "c">>}
RealFiles == {<<"s.ogg">>, <<"n.txt">>, <<"a", "s.ogg">>, <<"b", "U.OGA">>,
              <<"a", "c", "s.ogg">>}
Missing == <<"gone">>
Links == [at : RealDirs, name : {"0.ogg", "z"},
          to : RealDirs \cup {<<"a", "s.ogg">>, Missing}]
RECURSIVE LinkSets(_)
LinkSets(n) ==
  IF n = 0 THEN {{}}
  ELSE LinkSets(n - 1) \cup
       {S \cup {l} : S \in LinkSets(n - 1), l \in Links}
\* the link sets in which no directory holds two links of one name
FileTrees ==
  {fs \in LinkSets(MaxLinks) :
     \A l, m \in fs : (l.at = m.at /\ l.name = m.name) => l = m}

Front(p) == SubSeq(p, 1, Len(p) - 1)
\* the entries of the directory whose canonical path is d
EntriesOf(fs, d) ==
  {[name |-> q[Len(q)], kind |-> "dir", to |-> q] :
     q \in {q \in RealDirs : q # <<>> /\ Front(q) = d}}
  \cup {[name |-> q[Len(q)], kind |-> "file", to |-> q] :
          q \in {q \in RealFiles : Front(q) = d}}
  \cup {[name |-> l.name, kind |-> "link", to |-> l.to] :
          l \in {l \in fs : l.at = d}}
\* byte order of the names in use
NameRank(n) ==
  CASE n = "0.ogg" -> 1 [] n = "U.OGA" -> 2 [] n = "a" -> 3 [] n = "b" -> 4
    [] n = "c" -> 5 [] n = "n.txt" -> 6 [] n = "s.ogg" -> 7 [] n = "z" -> 8
\* os.ReadDir: the entries sorted by file name
RECURSIVE ReadDirSorted(_)
ReadDirSorted(S) ==
  IF S = {} THEN <<>>
  ELSE LET m == CHOOSE m \in S :
                  \A x \in S : NameRank(m.name) <= NameRank(x.name)
       IN <<m>> \o ReadDirSorted(S \ {m})
ReadDir(fs, d) == ReadDirSorted(EntriesOf(fs, d))
\* filepath.EvalSymlinks then filepath.Abs, for the path of a directory
RECURSIVE EvalSymlinks(_, _)
EvalSymlinks(fs, p) ==
  IF p = <<>> THEN <<>>
  ELSE LET d == EvalSymlinks(fs, Front(p))
           e == CHOOSE e \in EntriesOf(fs, d) : e.name = p[Len(p)]
       IN e.to
\* filepath.Ext and strings.ToLower, on the names in use
Ext(n) ==
  CASE n \in {"0.ogg", "s.ogg", "y.ogg", "relative.ogg"} -> ".ogg"
    [] n = "U.OGA" -> ".OGA"
    [] n \in {"n.txt", "list.txt"} -> ".txt"
    [] n \in {"y.wav", "relative.wav"} -> ".wav"
    [] OTHER -> ""
ToLower(x) == IF x = ".OGA" THEN ".oga" ELSE x
isOgg(n) == ToLower(Ext(n)) \in {".ogg", ".oga"}
\* string order of two paths joined with "/"
RECURSIVE PathLess(_, _)
PathLess(p, q) ==
  IF p = <<>> THEN q # <<>>
  ELSE IF q = <<>> THEN FALSE
  ELSE IF p[1] = q[1] THEN PathLess(Tail(p), Tail(q))
  ELSE NameRank(p[1]) < NameRank(q[1])

\* a call buildOggListFromDir(root) about to start on the tree fs
NewWalk(fs) ==
  [pc |-> "start", fs |-> fs, stack |-> <<>>, seenDirs |-> {},
   out |-> <<>>, entered |-> <<>>]

\* a bug: visited directories are not recognised
alreadySeenNever(seenDirs, realDir) == FALSE

\* if seenDirs[realDir] { return nil }
alreadySeen(seenDirs, realDir) == realDir \in seenDirs

\* walk(dir) up to its loop over the entries: a directory seen before
\* returns at once, a new one is marked and read
walkCall(w, dir) ==
  LET realDir == EvalSymlinks(w.fs, dir)
  IN IF alreadySeen(w.seenDirs, realDir)
     THEN w
     ELSE [w EXCEPT !.seenDirs = @ \cup {realDir},
                    !.entered = Append(@, realDir),
                    !.stack = Append(@, [dir |-> dir,
                                         rest |-> ReadDir(w.fs, realDir)])]

\* buildOggListFromDir(root) is called on one of the file trees
WalkInput ==
  /\ walk.pc = "idle"
  /\ \E fs \in FileTrees : walk' = NewWalk(fs)
  /\ UNCHANGED <<sysVars, ogg, pl, vh, hc, cyc, th>>

\* _ = walk(root)
WalkStart ==
  /\ walk.pc = "start"
  /\ walk' = walkCall([walk EXCEPT !.pc = "walk"], <<>>)
  /\ UNCHANGED <<sysVars, ogg, pl, vh, hc, cyc, th>>

\* one iteration of for _, e := range entries in the innermost walk
WalkEntry ==
  /\ walk.pc = "walk"
  /\ walk.stack # <<>>
  /\ walk.stack[Len(walk.stack)].rest # <<>>
  /\ LET top == walk.stack[Len(walk.stack)]
         e == Head(top.rest)
         full == Append(top.dir, e.name)
         w == [walk EXCEPT !.stack[Len(walk.stack)].rest = Tail(top.rest)]
         file == IF isOgg(e.name)
                 THEN [w EXCEPT !.out = Append(@, full)]
                 ELSE w
     IN walk' =
          IF e.kind = "link"
          THEN IF e.to \in RealDirs THEN walkCall(w, full)
               ELSE IF e.to \in RealFiles THEN file
               ELSE w
          ELSE IF e.kind = "dir" THEN walkCall(w, full)
          ELSE file
  /\ Len(walk'.stack) <= MaxDepth
  /\ UNCHANGED <<sysVars, ogg, pl, vh, hc, cyc, th>>

\* the innermost walk returns; after the outermost, sort.Strings(out)
WalkReturn ==
  /\ walk.pc = "walk"
  /\ walk.stack # <<>>
  /\ walk.stack[Len(walk.stack)].rest = <<>>
  /\ walk' = IF Len(walk.stack) = 1
             THEN [walk EXCEPT !.stack = <<>>, !.pc = "done",
                               !.out = SortSeq(@, PathLess)]
             ELSE [walk EXCEPT !.stack = Front(@)]
  /\ UNCHANGED <<sysVars, ogg, pl, vh, hc, cyc, th>>

NextWalk == WalkInput \/ WalkStart \/ WalkEntry \/ WalkReturn

WalkSpec == Init /\ [][NextWalk]_vars

(* ---- SetHeader and GetHeaderCopy step by step (main.go:73-88) --------- *)
(* A slice is a buffer and a length; hc.heap holds the bytes of every      *)
(* buffer.  One goroutine calls SetHeader with the buffers <<"h", k>>, one *)
(* after the other; each goroutine of Getters calls GetHeaderCopy once,    *)
(* into its own new buffer <<"o", g>>, and then overwrites what it got.    *)
Getters == {1, 2}
HeaderArgs == {<<1>>, <<2, 3>>, <<4, 5, 6>>}
NilSlice == [buf |-> <<"nil", 0>>, len |-> 0]
\* the bytes a slice shows
View(heap, sl) == IF sl.len = 0 THEN <<>> ELSE SubSeq(heap[sl.buf], 1, sl.len)

\* the callers start, the cache empty, the SetHeader arguments chosen
HcInput ==
  /\ hc.pc = "idle"
  /\ \E args \in [1..MaxSets -> HeaderArgs] :
       hc' = [pc |-> "run",
              hmu |-> [w |-> FALSE, r |-> 0],
              header |-> NilSlice,
              heap |-> [b \in {<<"h", k>> : k \in 1..MaxSets}
                               \cup {<<"o", g>> : g \in Getters} |->
                          IF b[1] = "h" THEN args[b[2]] ELSE <<>>],
              set |-> [pc |-> "call", k |-> 1],
              assigned |-> 0,
              get |-> [g \in Getters |->
                         [pc |-> "call", out |-> NilSlice, at |-> 0]]]
  /\ UNCHANGED <<sysVars, walk, ogg, pl, vh, cyc, th>>

\* a bug: Lock does not wait for the readers
canLockOverReaders(hmu) == ~hmu.w

\* b.hmu.Lock() returns when no writer and no reader holds the lock
canLock(hmu) == ~hmu.w /\ hmu.r = 0

\* b.hmu.RLock() returns when no writer holds the lock
canRLock(hmu) == ~hmu.w

\* SetHeader: b.hmu.Lock()
SetLock ==
  /\ hc.pc = "run" /\ hc.set.pc = "call"
  /\ canLock(hc.hmu)
  /\ hc' = [hc EXCEPT !.hmu.w = TRUE, !.set.pc = "assign"]
  /\ UNCHANGED <<sysVars, walk, ogg, pl, vh, cyc, th>>

\* SetHeader: b.header = h
SetAssign ==
  /\ hc.pc = "run" /\ hc.set.pc = "assign"
  /\ hc' = [hc EXCEPT
              !.header = [buf |-> <<"h", hc.set.k>>,
                          len |-> Len(hc.heap[<<"h", hc.set.k>>])],
              !.assigned = hc.set.k,
              !.set.pc = "unlock"]
  /\ UNCHANGED <<sysVars, walk, ogg, pl, vh, cyc, th>>

\* SetHeader: b.hmu.Unlock(); the caller goes on to its next call
SetUnlock ==
  /\ hc.pc = "run" /\ hc.set.pc = "unlock"
  /\ hc' = [hc EXCEPT
              !.hmu.w = FALSE,
              !.set = IF hc.set.k < MaxSets
                      THEN [pc |-> "call", k |-> hc.set.k + 1]
                      ELSE [pc |-> "end", k |-> hc.set.k]]
  /\ UNCHANGED <<sysVars, walk, ogg, pl, vh, cyc, th>>

\* GetHeaderCopy: b.hmu.RLock()
GetRLock(g) ==
  /\ hc.pc = "run" /\ hc.get[g].pc = "call"
  /\ canRLock(hc.hmu)
  /\ hc' = [hc EXCEPT !.hmu.r = @ + 1,
                      !.get[g].pc = "len",
                      !.get[g].at = hc.assigned]
  /\ UNCHANGED <<sysVars, walk, ogg, pl, vh, cyc, th>>

\* GetHeaderCopy: if len(b.header) == 0 { return nil }
GetLen(g) ==
  /\ hc.pc = "run" /\ hc.get[g].pc = "len"
  /\ hc' = [hc EXCEPT
              !.get[g].pc = IF hc.header.len = 0 THEN "runlock" ELSE "make"]
  /\ UNCHANGED <<sysVars, walk, ogg, pl, vh, cyc, th>>

\* GetHeaderCopy: out := make([]byte, len(b.header))
GetMake(g) ==
  /\ hc.pc = "run" /\ hc.get[g].pc = "make"
  /\ hc' = [hc EXCEPT
              !.heap[<<"o", g>>] = [i \in 1..hc.header.len |-> 0],
              !.get[g].out = [buf |-> <<"o", g>>, len |-> hc.header.len],
              !.get[g].pc = "copy"]
  /\ UNCHANGED <<sysVars, walk, ogg, pl, vh, cyc, th>>

\* GetHeaderCopy: copy(out, b.header), as many bytes as the shorter holds
GetCopy(g) ==
  /\ hc.pc = "run" /\ hc.get[g].pc = "copy"
  /\ hc' = [hc EXCEPT
              !.heap[<<"o", g>>] =
                 [i \in 1..Len(@) |->
                    IF i <= hc.header.len
                    THEN hc.heap[hc.header.buf][i] ELSE @[i]],
              !.get[g].pc = "runlock"]
  /\ UNCHANGED <<sysVars, walk, ogg, pl, vh, cyc, th>>

\* GetHeaderCopy: the deferred b.hmu.RUnlock(), and the return
GetRUnlock(g) ==
  /\ hc.pc = "run" /\ hc.get[g].pc = "runlock"
  /\ hc' = [hc EXCEPT !.hmu.r = @ - 1, !.get[g].pc = "ret"]
  /\ UNCHANGED <<sysVars, walk, ogg, pl, vh, cyc, th>>

\* the caller overwrites the bytes it was returned
GetMutate(g) ==
  /\ hc.pc = "run" /\ hc.get[g].pc = "ret"
  /\ hc' = [hc EXCEPT
              !.heap[hc.get[g].out.buf] =
                 IF hc.get[g].out.len = 0 THEN @
                 ELSE [i \in 1..Len(@) |-> 0],
              !.get[g].pc = "end"]
  /\ UNCHANGED <<sysVars, walk, ogg, pl, vh, cyc, th>>

NextHc ==
  \/ HcInput
  \/ SetLock
  \/ SetAssign
  \/ SetUnlock
  \/ \E g \in Getters : GetRLock(g)
  \/ \E g \in Getters : GetLen(g)
  \/ \E g \in Getters : GetMake(g)
  \/ \E g \in Getters : GetCopy(g)
  \/ \E g \in Getters : GetRUnlock(g)
  \/ \E g \in Getters : GetMutate(g)

HcSpec == Init /\ [][NextHc]_vars

(* ---- readPlaylistFile, resolveExistingFile (main.go:128-186) ---------- *)
(* A line and a path are sequences of atoms: the separators " " and "/",   *)
(* the quote "'", the comment marks, the byte-order mark, and names.       *)
PlaylistLines ==
  { <<"#", " ", "comment">>,
    <<>>,
    <<"file", " ", "'", "/", "x", "/", "y.wav", "'">>,
    <<"relative.wav">>,
    <<"file", " ", "'", "/", "x", "/", "y.ogg", "'">>,
    <<"/", "x", "/", "y.ogg">>,
    <<" ", ".", "/", "relative.ogg", " ">>,
    <<";", "relative.ogg">>,
    <<"d">> }
\* the playlist files: where the file is, its lines, and which of the
\* files they may name exist
Playlists ==
  [listPath : {<<"/", "base", "/", "list.txt">>},
   lines : UNION {[1..n -> PlaylistLines] : n \in 0..MaxLines},
   absExist : BOOLEAN, relExist : BOOLEAN]
\* the regular files and the directories of the file system
PlFiles(in) ==
  (IF in.absExist
   THEN {<<"/", "x", "/", "y.wav">>, <<"/", "x", "/", "y.ogg">>} ELSE {})
  \cup (IF in.relExist
        THEN {<<"/", "base", "/", "relative.wav">>,
              <<"/", "base", "/", "relative.ogg">>} ELSE {})
PlDirs == {<<"/">>, <<"/", "x">>, <<"/", "base">>, <<"/", "base", "/", "d">>}

\* strings.TrimSpace
RECURSIVE TrimSpace(_)
TrimSpace(l) ==
  IF l # <<>> /\ l[1] = " " THEN TrimSpace(Tail(l))
  ELSE IF l # <<>> /\ l[Len(l)] = " " THEN TrimSpace(Front(l))
  ELSE l
\* strings.HasPrefix(line, "#") || strings.HasPrefix(line, ";")
isComment(l) == l # <<>> /\ l[1] \in {"#", ";"}
\* strings.TrimPrefix(line, "\uFEFF")
TrimBOM(l) == IF l # <<>> /\ l[1] = "BOM" THEN Tail(l) ELSE l
\* filepath.IsAbs
IsAbs(p) == p # <<>> /\ p[1] = "/"
\* the elements of a path: the atoms between separators, "" and "." dropped
RECURSIVE Elements(_)
Elements(p) ==
  IF p = <<>> THEN <<>>
  ELSE IF \E i \in 1..Len(p) : p[i] = "/"
  THEN LET i == CHOOSE i \in 1..Len(p) :
                  p[i] = "/" /\ \A j \in 1..(i - 1) : p[j] # "/"
           el == SubSeq(p, 1, i - 1)
           more == Elements(SubSeq(p, i + 1, Len(p)))
       IN IF el \in {<<>>, <<".">>} THEN more ELSE <<el>> \o more
  ELSE IF p = <<".">> THEN <<>> ELSE <<p>>
RECURSIVE JoinElements(_)
JoinElements(els) ==
  IF els = <<>> THEN <<>>
  ELSE IF Len(els) = 1 THEN els[1]
  ELSE els[1] \o <<"/">> \o JoinElements(Tail(els))
\* filepath.Clean, for paths without ".." elements
Clean(p) ==
  IF IsAbs(p) THEN <<"/">> \o JoinElements(Elements(p))
  ELSE IF Elements(p) = <<>> THEN <<".">>
  ELSE JoinElements(Elements(p))
\* filepath.Join
Join(dir, p) == Clean(dir \o <<"/">> \o p)
\* filepath.Dir
Dir(p) ==
  LET els == Elements(p)
  IN Clean((IF IsAbs(p) THEN <<"/">> ELSE <<>>) \o JoinElements(Front(els)))

\* resolveExistingFile(p, baseDir); every path here is absolute once it is
\* joined to baseDir, so filepath.Abs leaves it as it is
resolveExistingFile(p, baseDir, files) ==
  LET q == Clean(IF ~IsAbs(p) /\ baseDir # <<>> THEN Join(baseDir, p) ELSE p)
  IN IF q \in files /\ q \notin PlDirs THEN [p |-> q, ok |-> TRUE]
     ELSE [p |-> <<>>, ok |-> FALSE]

\* the loop of readPlaylistFile over the lines the scanner returns
RECURSIVE scanLines(_, _, _)
scanLines(lines, baseDir, files) ==
  IF lines = <<>> THEN <<>>
  ELSE LET line == TrimSpace(Head(lines))
           more == scanLines(Tail(lines), baseDir, files)
           res == resolveExistingFile(TrimBOM(line), baseDir, files)
           ext == ToLower(Ext(res.p[Len(res.p)]))
       IN IF line = <<>> THEN more
          ELSE IF isComment(line) THEN more
          ELSE IF ~res.ok THEN more
          ELSE IF ext # ".ogg" /\ ext # ".oga" THEN more
          ELSE <<res.p>> \o more

readPlaylistFile(in) ==
  scanLines(in.lines, Dir(in.listPath), PlFiles(in))

\* readPlaylistFile is called on one of the playlist files
PlInput ==
  /\ pl.pc = "idle"
  /\ \E in \in Playlists : pl' = [pc |-> "call", in |-> in, out |-> <<>>]
  /\ UNCHANGED <<sysVars, walk, ogg, vh, hc, cyc, th>>

\* the call returns
PlRead ==
  /\ pl.pc = "call"
  /\ pl' = [pl EXCEPT !.pc = "done", !.out = readPlaylistFile(pl.in)]
  /\ UNCHANGED <<sysVars, walk, ogg, vh, hc, cyc, th>>

NextPl == PlInput \/ PlRead

PlSpec == Init /\ [][NextPl]_vars

(* ---- readNextOggPage (main.go:258-300) -------------------------------- *)
(* Bytes are numbers 0..255.  The reader r is the sequence of bytes not    *)
(* read yet.  A stream is made of items, each some garbage followed by a   *)
(* well-formed page, and of trailing garbage.                              *)
OggS == <<79, 103, 103, 83>>
RECURSIVE Sum(_)
Sum(q) == IF q = <<>> THEN 0 ELSE Head(q) + Sum(Tail(q))
RECURSIVE Flatten(_)
Flatten(qq) == IF qq = <<>> THEN <<>> ELSE Head(qq) \o Flatten(Tail(qq))
\* a page: capture pattern, version, header type, granule position, serial
\* number, sequence number and checksum (20 bytes), segment count, segment
\* table, body
MkPage(hdrType, segTable, body) ==
  OggS \o <<0, hdrType>> \o [i \in 1..20 |-> 0] \o <<Len(segTable)>>
       \o segTable \o body
SegTables == UNION {[1..n -> {0, 2}] : n \in 0..MaxSegs}
\* body bytes: the capture pattern over again
Fill(n) == [i \in 1..n |-> OggS[((i - 1) % 4) + 1]]
WellFormedPages == {MkPage(0, st, Fill(Sum(st))) : st \in SegTables}
\* bytes between pages that hold no capture pattern
Garbage == {<<>>, <<79, 103, 103>>, <<7, 83>>}
Items == [garbage : Garbage, page : WellFormedPages]
Streams ==
  [items : UNION {[1..n -> Items] : n \in 0..MaxPages},
   trail : {<<>>, <<79, 103, 103>>}]
StreamBytes(st) ==
  Flatten([i \in 1..Len(st.items) |->
             st.items[i].garbage \o st.items[i].page]) \o st.trail

\* what io.ReadFull(r, buf) returns for a buffer of n bytes
ReadFull(r, n) ==
  IF n = 0 \/ Len(r) >= n
  THEN [buf |-> SubSeq(r, 1, n), rest |-> SubSeq(r, n + 1, Len(r)),
        err |-> ""]
  ELSE [buf |-> <<>>, rest |-> <<>>,
        err |-> IF r = <<>> THEN "EOF" ELSE "unexpected EOF"]

\* a bug: a mismatch skips the four bytes that were peeked
skipFour(r) == SubSeq(r, 5, Len(r))

\* _, _ = r.ReadByte()
skipOne(r) == Tail(r)

\* the loop that looks for the capture pattern: what is left of the reader
\* when r.Peek(4) returns "OggS", <<>> with err when r.Peek(4) fails
RECURSIVE findCapture(_)
findCapture(r) ==
  IF Len(r) < 4 THEN [rest |-> <<>>, err |-> "EOF"]
  ELSE IF SubSeq(r, 1, 4) = OggS THEN [rest |-> r, err |-> ""]
  ELSE findCapture(skipOne(r))

\* readNextOggPage(r): the page (or the error) and what is left of r
readNextOggPage(r) ==
  LET cap == findCapture(r)
      hdr == ReadFull(cap.rest, 27)
      segCount == hdr.buf[27]
      segTable == ReadFull(hdr.rest, segCount)
      body == ReadFull(segTable.rest, Sum(segTable.buf))
      fail(e) == [page |-> <<>>, rest |-> <<>>, err |-> e]
  IN IF cap.err # "" THEN fail(cap.err)
     ELSE IF hdr.err # "" THEN fail(hdr.err)
     ELSE IF SubSeq(hdr.buf, 1, 4) # OggS THEN fail("ogg: lost sync")
     ELSE IF segTable.err # "" THEN fail(segTable.err)
     ELSE IF body.err # "" THEN fail(body.err)
     ELSE [page |-> hdr.buf \o segTable.buf \o body.buf,
           rest |-> body.rest, err |-> ""]

\* a reader is opened on one of the streams
OggInput ==
  /\ ogg.pc = "idle"
  /\ \E st \in Streams :
       ogg' = [pc |-> "read", src |-> st, r |-> StreamBytes(st),
               pages |-> <<>>, err |-> ""]
  /\ UNCHANGED <<sysVars, walk, pl, vh, hc, cyc, th>>

\* one call page, err := readNextOggPage(r); the caller stops at an error
OggRead ==
  /\ ogg.pc = "read"
  /\ LET res == readNextOggPage(ogg.r)
     IN ogg' = IF res.err = ""
               THEN [ogg EXCEPT !.pages = Append(@, res.page),
                                !.r = res.rest]
               ELSE [ogg EXCEPT !.pc = "done", !.r = res.rest,
                                !.err = res.err]
  /\ UNCHANGED <<sysVars, walk, pl, vh, hc, cyc, th>>

NextOgg == OggInput \/ OggRead

OggSpec == Init /\ [][NextOgg]_vars

(* ---- vorbisHeaderFinder (main.go:303-355) ---------------------------- *)
(* streamOgg makes one finder per file and feeds it every page the first  *)
(* loop reads.  vh holds the finder's two fields and, as fed, the pages   *)
(* given to it so far.  A page is written as its header-type byte and its *)
(* segments, and built into bytes by MkPage before it is fed.             *)

\* "vorbis"
VorbisTag == <<118, 111, 114, 98, 105, 115>>

Zeros(n) == [i \in 1..n |-> 0]

\* the segments the sample pages are made of
SegId    == <<1>> \o VorbisTag
SegComm  == <<3>> \o VorbisTag
SegSetup == <<5>> \o VorbisTag
SegSetupLong == <<5>> \o VorbisTag \o Zeros(248)
SegAudio == <<2>> \o VorbisTag

\* pages a file may hold: header-type bit 0 is the continuation flag, bit 1
\* marks the first page of a stream
VhPageSample ==
  { [hdrType |-> 2, segs |-> <<SegId>>],
    [hdrType |-> 0, segs |-> <<SegComm, SegSetupLong>>],
    [hdrType |-> 1, segs |-> <<Zeros(7)>>],
    [hdrType |-> 0, segs |-> <<Zeros(7)>>],
    [hdrType |-> 1, segs |-> << <<>> >>],
    [hdrType |-> 0, segs |-> <<SegSetup>>],
    [hdrType |-> 0, segs |-> <<Zeros(255)>>],
    [hdrType |-> 1, segs |-> <<SegId>>],
    [hdrType |-> 0, segs |-> <<SegAudio, <<1, 118, 111, 114, 98, 105, 120>>>>],
    [hdrType |-> 0, segs |-> <<>>],
    [hdrType |-> 0, segs |-> <<<<1, 118, 111, 114, 98, 105>>>>] }

\* the bytes of a page, as readNextOggPage returns them
PageBytes(d) ==
  MkPage(d.hdrType, [i \in 1..Len(d.segs) |-> Len(d.segs[i])], Flatten(d.segs))

\* var vh vorbisHeaderFinder
NewFinder == [gotPackets |-> 0, packetBuf |-> <<>>]

\* checkPacket: counts a packet [type] "vorbis" ... with type 1, 3 or 5,
\* up to three
checkPacket(f, pkt) ==
  IF f.gotPackets >= 3 THEN f
  ELSE IF /\ Len(pkt) >= 7
          /\ pkt[1] \in {1, 3, 5}
          /\ SubSeq(pkt, 2, 7) = VorbisTag
       THEN [f EXCEPT !.gotPackets = @ + 1]
       ELSE f

\* a bug: the packet buffer is kept at every page start
continuedAlways(hdrType) == TRUE

\* (hdrType & 0x01) != 0
continued(hdrType) == hdrType % 2 = 1

\* for _, lace := range segTable, from entry i on, offset bytes of the body
\* taken
RECURSIVE laceLoop(_, _, _, _, _)
laceLoop(f, segTable, body, i, offset) ==
  IF i > Len(segTable) THEN f
  ELSE LET n == segTable[i]
       IN  IF offset + n > Len(body) THEN f
           ELSE LET buf == f.packetBuf \o SubSeq(body, offset + 1, offset + n)
                    g == IF n < 255
                         THEN [checkPacket(f, buf) EXCEPT !.packetBuf = <<>>]
                         ELSE [f EXCEPT !.packetBuf = buf]
                IN  laceLoop(g, segTable, body, i + 1, offset + n)

\* feedPage
feedPage(f, page) ==
  IF Len(page) < 27 THEN f
  ELSE LET segCount == page[27]
       IN  IF Len(page) < 27 + segCount THEN f
           ELSE LET hdrType == page[6]
                    segTable == SubSeq(page, 28, 27 + segCount)
                    body == SubSeq(page, 28 + segCount, Len(page))
                    g == IF ~continued(hdrType)
                         THEN [f EXCEPT !.packetBuf = <<>>]
                         ELSE f
                IN  laceLoop(g, segTable, body, 1, 0)

\* done
done(f) == f.gotPackets >= 3

\* streamOgg declares the finder of a file
VhInput ==
  /\ vh.pc = "idle"
  /\ vh' = [pc |-> "feed", f |-> NewFinder, fed |-> <<>>]
  /\ UNCHANGED <<sysVars, walk, ogg, pl, hc, cyc, th>>

\* vh.feedPage(page) with the next page of the file
VhFeed ==
  /\ vh.pc = "feed"
  /\ Len(vh.fed) < MaxFed
  /\ \E d \in VhPageSample :
       vh' = [vh EXCEPT !.f = feedPage(vh.f, PageBytes(d)),
                        !.fed = Append(vh.fed, d)]
  /\ UNCHANGED <<sysVars, walk, ogg, pl, hc, cyc, th>>

NextVh == VhInput \/ VhFeed

VhSpec == Init /\ [][NextVh]_vars

(* ---- streamOgg, the outer loop (main.go:359-438, mp3 build 807-862) --- *)
(* One producer and the disk it reads.  cyc.disk is what loadList would    *)
(* return now (an error, or the list the directory or the playlist file    *)
(* gives); it changes under the producer at any time.  Streaming one file  *)
(* is one step here: the inner loops end at the file's end or at the first *)
(* read error.                                                             *)

\* what loadList may return
LoadResults ==
  { [err |-> TRUE, files |-> <<>>] } \cup
  { [err |-> FALSE, files |-> q] :
      q \in UNION { [1..n -> {"a.ogg", "b.ogg"}] : n \in 0..MaxList } }

\* the orders rng.Shuffle may leave a list in
Shuffles(q) ==
  { [i \in 1..Len(q) |-> q[f[i]]] :
      f \in { g \in [1..Len(q) -> 1..Len(q)] :
                \A i, j \in 1..Len(q) : g[i] = g[j] => i = j } }

\* a bug: the list of the last cycle is used again
loadListCached(c) ==
  IF c.files # <<>> THEN [err |-> FALSE, files |-> c.files] ELSE c.disk

\* loadList(): readPlaylistFile(playlistPath) or buildOggListFromDir(root),
\* from the disk as it is now
loadList(c) == c.disk

\* main starts the producer goroutine with its flags
CycInput ==
  /\ cyc.pc = "idle"
  /\ \E sh \in BOOLEAN, d \in LoadResults :
       cyc' = [pc |-> "load", shuffle |-> sh, disk |-> d, files |-> <<>>,
               idx |-> 0, playing |-> "", opened |-> FALSE]
  /\ UNCHANGED <<sysVars, walk, ogg, pl, vh, hc, th>>

\* files, err := loadList(); the two tests; the shuffle
CycLoad ==
  /\ cyc.pc = "load"
  /\ LET r == loadList(cyc)
     IN  IF r.err \/ Len(r.files) = 0
         THEN cyc' = [cyc EXCEPT !.pc = "sleep"]
         ELSE \E q \in (IF cyc.shuffle THEN Shuffles(r.files) ELSE {r.files}) :
                cyc' = [cyc EXCEPT !.pc = "play", !.files = q, !.idx = 1]
  /\ UNCHANGED <<sysVars, walk, ogg, pl, vh, hc, th>>

\* time.Sleep(rescanDelay); continue
CycSleep ==
  /\ cyc.pc = "sleep"
  /\ cyc' = [cyc EXCEPT !.pc = "load"]
  /\ UNCHANGED <<sysVars, walk, ogg, pl, vh, hc, th>>

\* one pass of for _, fpath := range files: os.Open fails (continue) or the
\* file is streamed to its end and closed; after the last entry the outer
\* loop starts over
CycPlay ==
  /\ cyc.pc = "play"
  /\ \E ok \in BOOLEAN :
       cyc' = [cyc EXCEPT
                 !.playing = cyc.files[cyc.idx],
                 !.opened = ok,
                 !.idx = IF cyc.idx < Len(cyc.files) THEN cyc.idx + 1 ELSE 0,
                 !.pc = IF cyc.idx < Len(cyc.files) THEN "play" ELSE "load"]
  /\ UNCHANGED <<sysVars, walk, ogg, pl, vh, hc, th>>

\* the music directory or the playlist file is edited
CycDiskEdit ==
  /\ cyc.pc # "idle"
  /\ \E d \in LoadResults \ {cyc.disk} : cyc' = [cyc EXCEPT !.disk = d]
  /\ UNCHANGED <<sysVars, walk, ogg, pl, vh, hc, th>>

\* the producer goroutine's steps
CycStep == CycLoad \/ CycSleep \/ CycPlay

NextCyc == CycInput \/ CycStep \/ CycDiskEdit

\* the scheduler runs the producer; time.Sleep returns
CycSpec == Init /\ [][NextCyc]_vars /\ WF_vars(CycStep)

(* ---- readNextOggPage on a damaged file (main.go:258-300, 401-432) ------ *)
(* streamOgg reads a file page by page until the first error and sends     *)
(* every page returned to b.broadcast.  Here the file is a stream of pages *)
(* with bytes missing: its end, or the last byte of its first page.        *)

\* the files: a stream cut off at its end ("tail": the first keep bytes are
\* left), or one whose first page has lost the last byte of its body while
\* the next page follows ("body")
DamagedSources ==
  { [items |-> st.items, trail |-> <<>>, damage |-> "tail", keep |-> k] :
      st \in {t \in Streams : t.trail = <<>>},
      k \in 0..(MaxPages * (27 + MaxSegs + 2 * MaxSegs) + 3 * MaxPages) } \cup
  { [items |-> st.items, trail |-> <<>>, damage |-> "body", keep |-> 0] :
      st \in {t \in Streams : /\ t.trail = <<>>
                              /\ Len(t.items) = MaxPages
                              /\ Len(t.items[1].page) > 27 + t.items[1].page[27]} }

DamagedBytes(d) ==
  LET all == StreamBytes(d)
      one == Len(d.items[1].garbage) + Len(d.items[1].page)
  IN  IF d.damage = "tail"
      THEN SubSeq(all, 1, IF d.keep < Len(all) THEN d.keep ELSE Len(all))
      ELSE SubSeq(all, 1, one - 1) \o SubSeq(all, one + 1, Len(all))

\* os.Open on a damaged file, and the reader over it
OggInputDamaged ==
  /\ ogg.pc = "idle"
  /\ \E d \in DamagedSources :
       ogg' = [pc |-> "read", src |-> d, r |-> DamagedBytes(d),
               pages |-> <<>>, err |-> ""]
  /\ UNCHANGED <<sysVars, walk, pl, vh, hc, cyc, th>>

NextSrc == OggInput \/ OggInputDamaged \/ OggRead

SrcSpec == Init /\ [][NextSrc]_vars

(* ---- throttle (main.go:90-118, mp3 build main.go:665-675) ------------- *)
(* Time is counted in milliseconds; th.now is the clock time.Now() reads.  *)

\* time.Second, in milliseconds
Second == 1000

\* the -bitrate values tried (0: the default is taken) and the page sizes
BitrateFlags == {0, 8}
PageSizes == {500, 1000, 4096, 12000}
\* how far the clock moves between two calls
ClockSteps == {1, 500, 2000}

\* newThrottle: if kbps <= 0 { kbps = 192 }; targetBps: kbps * 1000 / 8
newThrottle(kbps, now) ==
  [targetBps |-> ((IF kbps <= 0 THEN 192 ELSE kbps) * 1000) \div 8,
   start |-> now, written |-> 0]

\* time.Duration(float64(t.written)/float64(t.targetBps)) * time.Second: the
\* conversion of the quotient to an integer drops its fraction
should(t) == (t.written \div t.targetBps) * Second

\* Pace(n) called at time now: the throttle afterwards and the time at
\* which the call returns
Pace(t, n, now) ==
  LET u == [t EXCEPT !.written = @ + n]
      elapsed == now - u.start
  IN  [t |-> u,
       now |-> IF elapsed <= 0 THEN now
               ELSE IF should(u) > elapsed THEN now + (should(u) - elapsed)
               ELSE now]

\* th := newThrottle(bitrateKbps)
ThInput ==
  /\ th.pc = "idle"
  /\ \E kbps \in BitrateFlags :
       th' = [pc |-> "run", t |-> newThrottle(kbps, 0), now |-> 0, calls |-> 0]
  /\ UNCHANGED <<sysVars, walk, ogg, pl, vh, hc, cyc>>

\* reading the next page takes d milliseconds, then th.Pace(len(page))
ThPace ==
  /\ th.pc = "run"
  /\ th.calls < MaxPaces
  /\ \E d \in ClockSteps, n \in PageSizes :
       LET res == Pace(th.t, n, th.now + d)
       IN  th' = [th EXCEPT !.t = res.t, !.now = res.now, !.calls = @ + 1]
  /\ UNCHANGED <<sysVars, walk, ogg, pl, vh, hc, cyc>>

NextTh == ThInput \/ ThPace

ThSpec == Init /\ [][NextTh]_vars

(* ---- the system -------------------------------------------------------- *)
Next ==
  \/ \E s \in Conns : RunAddSub(s)
  \/ \E s \in Conns : RunRemoveSub(s)
  \/ RunBroadcast
  \/ \E s \in Conns : RunDeliver(s)
  \/ ProdOpen
  \/ ProdSendHdr
  \/ ProdSetHeader
  \/ ProdSendBody
  \/ \E s \in Conns, r \in ReqSample : handleRequest(s, r)
  \/ \E s \in Conns : handleRadioStatus(s)
  \/ \E s \in Conns : handleRadioHeader(s)
  \/ \E s \in Conns : handleRadioRecv(s)
  \/ \E s \in Conns : handleRadioClosed(s)

Spec == Init /\ [][Next]_vars

\* Run and the producer are goroutines the Go scheduler keeps running; the
\* connection handlers depend on their clients and get no fairness
\* the system, with at most LiveWork connections and pages
LiveNext ==
  \/ \E s \in Conns : RunAddSub(s)
  \/ \E s \in Conns : RunRemoveSub(s)
  \/ RunBroadcast
  \/ \E s \in Conns : RunDeliver(s)
  \/ ProdOpen /\ work' <= LiveWork
  \/ ProdSendHdr /\ work' <= LiveWork
  \/ ProdSetHeader /\ work' <= LiveWork
  \/ ProdSendBody /\ work' <= LiveWork
  \/ \E s \in Conns, r \in ReqSample :
       handleRequest(s, r) /\ work' <= LiveWork
  \/ \E s \in Conns : handleRadioStatus(s)
  \/ \E s \in Conns : handleRadioHeader(s)
  \/ \E s \in Conns : handleRadioRecv(s)
  \/ \E s \in Conns : handleRadioClosed(s)

LiveSpec ==
  /\ Init /\ [][LiveNext]_vars
  /\ WF_vars(RunBroadcast)
  /\ WF_vars(\E s \in Conns : RunDeliver(s))
  /\ WF_vars(ProdSendHdr)
  /\ WF_vars(ProdSendBody)

\* Run's select picks among its ready cases at random, so a handler waiting
\* on removeSub is served although the other cases keep being ready; a
\* handler in its range loop is a running goroutine whose conn.Write returns
TeardownSpec ==
  /\ LiveSpec
  /\ \A s \in Conns : SF_vars(RunRemoveSub(s))
  /\ \A s \in Conns : WF_vars(handleRadioRecv(s))
  /\ \A s \in Conns : WF_vars(handleRadioClosed(s))

\* the system again, its clients sending requests of every outcome
NextOutcomes ==
  \/ \E s \in Conns : RunAddSub(s)
  \/ \E s \in Conns : RunRemoveSub(s)
  \/ RunBroadcast
  \/ \E s \in Conns : RunDeliver(s)
  \/ ProdOpen
  \/ ProdSendHdr
  \/ ProdSetHeader
  \/ ProdSendBody
  \/ \E s \in Conns, r \in ReqOutcomes : handleRequest(s, r)
  \/ \E s \in Conns : handleRadioStatus(s)
  \/ \E s \in Conns : handleRadioHeader(s)
  \/ \E s \in Conns : handleRadioRecv(s)
  \/ \E s \in Conns : handleRadioClosed(s)

OutcomeSpec == Init /\ [][NextOutcomes]_vars

\* one connection and every enumerated request
NextReq == pc[1] = "accept" /\ \E r \in Requests : handleRequest(1, r)

SpecReq == Init /\ [][NextReq]_vars

(* ======================================================================= *)
(* Properties                                                              *)
(* ======================================================================= *)
Last(q) == q[Len(q)]
\* the frames a connection's handler has dequeued or still has queued
Delivered(s) == got[s] \o queue[s]
Elems(q) == {q[i] : i \in 1..Len(q)}
\* the page items of what was written to a connection
Pages(w) == SelectSeq(w, LAMBDA x : x.k = "page")

\* C1: when Run delivers the frame in hand to a registered subscriber, the
\* delivery never waits: a subscriber whose queue is full at that moment is
\* removed from the set and its queue closed (once), any other gets the frame
\* appended and stays; the range visits every subscriber registered when the
\* frame was taken and ends only when all were visited.
C1_NonBlockingDelivery ==
  [][ /\ \A s \in Conns : (s \in todo /\ s \notin todo') =>
           /\ s \in subs
           /\ IF Len(queue[s]) >= QueueCap
              THEN /\ s \notin subs'
                   /\ closes'[s] = closes[s] + 1
                   /\ queue'[s] = queue[s]
              ELSE /\ s \in subs'
                   /\ closes'[s] = closes[s]
                   /\ queue'[s] = Append(queue[s], frame)
      /\ (frame' # frame) => (todo' = subs /\ frame' = Head(broadcast))
      /\ (runPc = "fanout" /\ runPc' = "select") => todo' = {}
      /\ (runPc = "fanout" /\ todo' # todo) =>
           \E s \in todo : todo' = todo \ {s} ]_vars

\* one frame evicted a full subscriber and reached another one with room
C1_Witness ==
  \E s, t \in Conns :
    /\ s # t
    /\ pc[s] = "stream" /\ s \notin subs /\ closes[s] = 1
    /\ Len(queue[s]) = QueueCap /\ Last(queue[s]) = frame - 1
    /\ t \in subs /\ queue[t] # <<>> /\ Last(queue[t]) = frame
    /\ runPc = "select"

\* C2: Run never waits inside the range loop, whatever the subscribers do
\* (a delivery step is always possible while the loop runs); so with Run and
\* the producer scheduled fairly, every frame the producer holds is
\* eventually accepted by b.broadcast and every frame sent is eventually
\* taken by Run and fanned out to the end.
C2_ProducerNeverStalled ==
  /\ [](runPc = "fanout" => ENABLED (\E s \in Conns : RunDeliver(s)))
  /\ \A k \in 1..LiveWork :
       (read = k /\ prodPc \in {"hdrsend", "bodysend"}) ~> (sent >= k)
  /\ \A k \in 1..LiveWork :
       (sent >= k) ~> (processed >= k /\ (processed = k => runPc = "select"))

\* every frame was processed although a subscriber never drained its queue
C2_Witness ==
  \E s \in Conns :
    /\ processed = QueueCap + 1 /\ runPc = "select"
    /\ got[s] = <<>> /\ Len(queue[s]) = QueueCap
    /\ closes[s] = 1 /\ pc[s] = "stream"

C4_NoFrameFromBeforeRegistration ==
  \A s \in Conns : \A i \in 1..Len(got[s]) : got[s][i] > regSent[s]

\* C5: a registered subscriber has been given (has dequeued or still holds)
\* every frame sent after its registration that Run has finished delivering
\* to it.
C5_NoMissedFrame ==
  \A s \in subs :
    \A k \in (regSent[s] + 1)..processed :
      (k < frame \/ runPc = "select" \/ s \notin todo) =>
        k \in Elems(Delivered(s))

\* a subscriber registered before any frame holds both frames
C5_Witness ==
  \E s \in subs :
    /\ regSent[s] = 0 /\ processed >= 2
    /\ got[s] # <<>> /\ queue[s] # <<>>
    /\ Delivered(s) = <<1, 2>>

\* C6: a subscriber leaves the set only by its own unregister request or at
\* a delivery that finds its queue at capacity: one whose queue has room at
\* every delivery is never evicted.
C6_EvictedOnlyWhenFull ==
  [][ \A s \in Conns : (s \in subs /\ s \notin subs') =>
        \/ pc[s] = "remove" /\ pc'[s] = "done"
        \/ runPc = "fanout" /\ s \in todo /\ Len(queue[s]) >= QueueCap ]_vars

\* a subscriber took two deliveries, each with room, and is still registered
C6_Witness ==
  \E s \in subs :
    /\ processed >= 2 /\ runPc = "select"
    /\ Len(got[s]) >= 1 /\ Len(Delivered(s)) >= 2
    /\ closes[s] = 0

\* C7: Run's handling of an unregister request removes a registered
\* subscriber and closes its queue, exactly once; for a subscriber no longer
\* in the set (evicted before) it changes nothing of the Broadcaster and
\* closes nothing.  No queue is ever closed twice.
C7_UnregisterIdempotent ==
  /\ [](\A s \in Conns : closes[s] <= 1)
  /\ [][ \A s \in Conns : (pc[s] = "remove" /\ pc'[s] = "done") =>
           IF s \in subs
           THEN /\ subs' = subs \ {s}
                /\ closes' = [closes EXCEPT ![s] = 1]
                /\ UNCHANGED <<queue, broadcast, header>>
           ELSE UNCHANGED <<subs, closes, queue, broadcast, header,
                            subCount, subCountAtomic>> ]_vars

\* an evicted subscriber's handler drained its queue, wrote every page and
\* had its unregister request handled
C7_Witness ==
  \E s \in Conns :
    /\ pc[s] = "done" /\ closes[s] = 1
    /\ got[s] # <<>> /\ Len(Pages(wire[s])) = Len(got[s])

\* C8: a step that registers, unregisters or evicts a subscriber leaves the
\* membership, the queue and the open/closed status of every other
\* subscriber as they were.
C8_OthersUntouched ==
  [][ \A s \in Conns : ((s \in subs) # (s \in subs')) =>
        \A t \in Conns \ {s} :
          /\ (t \in subs) = (t \in subs')
          /\ queue'[t] = queue[t]
          /\ closes'[t] = closes[t] ]_vars

\* one subscriber is gone (its queue closed) while another is registered
\* and holds a frame
C8_Witness ==
  \E s, t \in Conns :
    /\ s # t
    /\ closes[s] = 1 /\ pc[s] = "done"
    /\ t \in subs /\ queue[t] # <<>>

\* what is written on a connection: nothing, one non-stream response, or
\* the /radio status line, then at most one non-empty header, then pages
WireShape(w) ==
  \/ w = <<>>
  \/ Len(w) = 1 /\ w[1].k = "text"
  \/ /\ w[1] = RadioStatus
     /\ \A i \in 2..Len(w) :
          \/ w[i].k = "hdr" /\ i = 2 /\ Len(w[i].v) > 0
          \/ w[i].k = "page"

\* C9: a /radio connection is written the status line first, then the header
\* cache as it is when the handler reads it (only if non-empty), then the
\* pages in the order they leave the queue, each as one whole write; the
\* handler leaves the streaming loop only after a failed write or when the
\* queue is closed and drained.
C9_RadioWireOrder ==
  /\ [](\A s \in Conns :
          /\ WireShape(wire[s])
          /\ \E n \in {Len(got[s]) - 1, Len(got[s])} :
               /\ n >= 0
               /\ Pages(wire[s]) = [i \in 1..n |-> Page(got[s][i])]
          /\ pc[s] \in {"hdr", "add", "stream", "remove"} =>
               wire[s] # <<>> /\ wire[s][1] = RadioStatus)
  /\ [][ \A s \in Conns :
           /\ (pc[s] = "hdr" /\ pc'[s] # "hdr") =>
                IF Len(header) > 0
                THEN \/ wire'[s] = Append(wire[s], Hdr(header)) /\ pc'[s] = "add"
                     \/ wire'[s] = wire[s] /\ pc'[s] = "done"
                ELSE wire'[s] = wire[s] /\ pc'[s] = "add"
           /\ (pc[s] = "stream" /\ pc'[s] # "stream") =>
                /\ pc'[s] = "remove"
                /\ \/ queue[s] = <<>> /\ closes[s] > 0
                   \/ /\ queue[s] # <<>>
                      /\ got'[s] = Append(got[s], Head(queue[s]))
                      /\ wire'[s] = wire[s]
           /\ (wire'[s] # wire[s] /\ pc[s] = "stream") =>
                /\ queue[s] # <<>>
                /\ wire'[s] = Append(wire[s], Page(Head(queue[s])))
                /\ queue'[s] = Tail(queue[s]) ]_vars

\* a listener was written the status line, a cached header and a page
C9_Witness ==
  \E s \in Conns :
    /\ Len(wire[s]) >= 3
    /\ wire[s][1] = RadioStatus
    /\ wire[s][2].k = "hdr"
    /\ wire[s][3].k = "page"

\* the length of a line without its trailing "\r" and "\n" characters
StrippedLen(l) ==
  CHOOSE n \in 0..Len(l) :
    /\ n = 0 \/ l[n] \notin {"\r", "\n"}
    /\ \A i \in (n + 1)..Len(l) : l[i] \in {"\r", "\n"}
\* the number of fields single spaces split the stripped line into
FieldCount(l) == 1 + Cardinality({i \in 1..StrippedLen(l) : l[i] = " "})

\* C10: a request line received whole that does not split into exactly
\* three fields is answered "4 malformed request line" and nothing else; the
\* handler ends there: no dispatch to /radio, no request body read.
C10_MalformedRequestLine ==
  \A s \in Conns :
    (pc[s] # "accept" /\ req[s].complete /\ FieldCount(req[s].line) # 3) =>
      /\ wire[s] = <<Malformed>>
      /\ pc[s] = "done"
      /\ bodyRead[s] = 0

\* a line of four fields, with body bytes waiting, was answered malformed
C10_Witness ==
  /\ pc[1] = "done" /\ req[1].complete
  /\ FieldCount(req[1].line) = 4
  /\ req[1].avail > 0
  /\ wire[1] = <<Malformed>>

\* the three fields of a request line that has exactly three
Field(l, k) ==
  LET sp == {i \in 1..StrippedLen(l) : l[i] = " "}
      i == CHOOSE i \in sp : \A j \in sp : i <= j
      j == CHOOSE j \in sp : \A i2 \in sp : i2 <= j
  IN CASE k = 1 -> SubSeq(l, 1, i - 1)
       [] k = 2 -> SubSeq(l, i + 1, j - 1)
       [] k = 3 -> SubSeq(l, j + 1, StrippedLen(l))
\* a written decimal integer: an optional sign, then one or more digits
IsDecimal(f) ==
  \E d \in 1..Len(f) :
    /\ d \in {1, 2}
    /\ d = 2 => f[1] \in {"+", "-"}
    /\ \A i \in d..Len(f) : f[i] \in Digits
\* the digits of a written decimal integer, and the number they denote
Magnitude(f) ==
  DecVal(SelectSeq(f, LAMBDA c : c \in Digits))
\* it denotes a number that is not negative
IsNonNegDecimal(f) ==
  IsDecimal(f) /\ (f[1] = "-" => Magnitude(f) = 0)

\* C11: for a request line of three fields received whole, a length field
\* that does not denote a non-negative decimal integer is answered
\* "4 invalid content-length"; otherwise, if the client sent fewer body bytes
\* than declared the answer is "5 error reading request body"; in both cases
\* nothing else is written and the handler ends without dispatching the
\* path; otherwise exactly the declared number of body bytes is consumed and
\* the reply is neither of the two.
C11_ContentLength ==
  \A s \in Conns :
    (pc[s] # "accept" /\ req[s].complete /\ FieldCount(req[s].line) = 3) =>
      LET len == Field(req[s].line, 3)
      IN IF ~IsNonNegDecimal(len)
         THEN wire[s] = <<BadLength>> /\ pc[s] = "done" /\ bodyRead[s] = 0
         ELSE IF Magnitude(len) > req[s].avail
         THEN /\ wire[s] = <<BodyError>> /\ pc[s] = "done"
              /\ bodyRead[s] = req[s].avail
         ELSE /\ bodyRead[s] = Magnitude(len)
              /\ BadLength \notin Elems(wire[s])
              /\ BodyError \notin Elems(wire[s])

\* a /radio request declared two body bytes, the client sent none, and the
\* answer was the body error
C11_Witness ==
  /\ pc[1] = "done" /\ req[1].complete
  /\ FieldCount(req[1].line) = 3
  /\ Field(req[1].line, 2) = <<"/radio">>
  /\ Field(req[1].line, 3) = <<"2">> /\ req[1].avail = 0
  /\ wire[1] = <<BodyError>>

\* a request received whole, of three fields, with a good length and body
ValidRequest(r) ==
  /\ r.complete
  /\ FieldCount(r.line) = 3
  /\ IsNonNegDecimal(Field(r.line, 3))
  /\ Magnitude(Field(r.line, 3)) <= r.avail
\* s occurs in w as a run of consecutive elements
Occurs(s, w) ==
  \E i \in 0..(Len(w) - Len(s)) : SubSeq(w, i + 1, i + Len(s)) = s

\* C12: a valid request is dispatched by its path field, whatever the
\* method: "/", "/index.gmi" and "/index.txt" are answered the status line
\* "2 text/gemini; charset=utf-8" followed by a body holding the link line
\* "=> spartan://<host>:<port>/radio Tune in", and the handler ends; "/radio"
\* enters the radio handler, which writes nothing but the stream response;
\* any other path is answered "4 not found" and the handler ends.
C12_DispatchByPath ==
  \A s \in Conns :
    (pc[s] # "accept" /\ ValidRequest(req[s])) =>
      LET path == Field(req[s].line, 2)
      IN IF path \in {<<"/">>, <<"/index.gmi">>, <<"/index.txt">>}
         THEN /\ pc[s] = "done"
              /\ Len(wire[s]) = 1 /\ wire[s][1].k = "text"
              /\ wire[s][1].v[1] = "2 text/gemini; charset=utf-8\r\n"
              /\ Occurs(<<"=> spartan://", Host, ":", PortDigits,
                          "/radio Tune in\n">>, Tail(wire[s][1].v))
         ELSE IF path = <<"/radio">>
         THEN /\ pc[s] \in {"radio", "hdr", "add", "stream", "remove", "done"}
              /\ wire[s] = <<>> \/ wire[s][1] = RadioStatus
         ELSE wire[s] = <<NotFound>> /\ pc[s] = "done"

\* /index.txt was asked for with a two-byte body and answered the index page
C12_Witness ==
  /\ pc[1] = "done" /\ ValidRequest(req[1])
  /\ Field(req[1].line, 2) = <<"/index.txt">>
  /\ bodyRead[1] = 2
  /\ wire[1] = <<Index>>

\* the number of response status lines written to a connection
StatusCount(w) == Cardinality({i \in 1..Len(w) : w[i].k = "text"})
\* a valid request for /radio: the one request handleRadio serves
RadioRequest(r) == ValidRequest(r) /\ Field(r.line, 2) = <<"/radio">>
\* the requests of the sample that are such
RadioRequests == {r \in ReqSample : RadioRequest(r)}

\* C13 as stated: every accepted connection gets exactly one response
\* status line: a handler that has ended without serving /radio has written
\* exactly one response, and a /radio connection has one status line, first.
C13_ExactlyOneStatusLine ==
  \A s \in Conns :
    /\ StatusCount(wire[s]) <= 1
    /\ wire[s] # <<>> => wire[s][1].k = "text"
    /\ (pc[s] = "done" /\ ~req[s] \in RadioRequests) => Len(wire[s]) = 1
    /\ (pc[s] \in {"hdr", "add", "stream", "remove"}) =>
         wire[s] # <<>> /\ wire[s][1] = RadioStatus

\* C13 amended: a connection is written at most one status line, before
\* anything else; a handler that has read its request line whole and ended
\* without serving /radio has written exactly one response; a /radio
\* connection has its status line before its stream; a connection whose
\* request line could not be read whole is closed with nothing written.
C13_OneStatusLineIfRequestRead ==
  \A s \in Conns :
    /\ StatusCount(wire[s]) <= 1
    /\ wire[s] # <<>> => wire[s][1].k = "text"
    /\ (pc[s] = "done" /\ req[s].complete /\ ~req[s] \in RadioRequests) =>
         Len(wire[s]) = 1
    /\ (pc[s] \in {"hdr", "add", "stream", "remove"}) =>
         /\ req[s] \in RadioRequests
         /\ wire[s] # <<>> /\ wire[s][1] = RadioStatus
    /\ (pc[s] # "accept" /\ ~req[s].complete) =>
         pc[s] = "done" /\ wire[s] = <<>>

\* one connection was closed unanswered, its request line never completed,
\* while another is streaming after its status line
C13_Witness ==
  \E s, t \in Conns :
    /\ pc[s] = "done" /\ ~req[s].complete /\ wire[s] = <<>>
    /\ pc[t] = "stream" /\ Len(wire[t]) >= 2
    /\ wire[t][1] = RadioStatus /\ StatusCount(wire[t]) = 1

\* the subscriber is out of the set, its queue closed once, the socket closed
TornDown(s) == pc[s] = "done" /\ s \notin subs /\ closes[s] = 1

Count(q, Test(_)) == Cardinality({i \in 1..Len(q) : Test(q[i])})
\* the real Ogg files of the tree
RealOggFiles == {f \in RealFiles : isOgg(f[Len(f)])}
\* the returned path p names the real file f through directories only
NamesThroughDirs(fs, p, f) ==
  /\ p[Len(p)] = f[Len(f)]
  /\ EvalSymlinks(fs, Front(p)) = Front(f)

\* the most entries a directory holds
MaxEntries ==
  Cardinality(RealDirs) + Cardinality(RealFiles) + MaxLinks
RECURSIVE RestSum(_)
RestSum(stack) ==
  IF stack = <<>> THEN 0 ELSE Len(Head(stack).rest) + RestSum(Tail(stack))
\* what is left of a walk: directories not entered yet, weighted above
\* anything one directory can add, entries not looked at yet, calls not
\* returned yet
Remaining(w) ==
  IF w.pc = "done" THEN 0
  ELSE (MaxEntries + 2) * Cardinality(RealDirs \ w.seenDirs)
       + RestSum(w.stack) + Len(w.stack)
       + (IF w.pc = "start" THEN 2 ELSE 1)

\* C15: a walk of any of the file trees ends: every step of the walk
\* lowers what remains of it, and a step is possible until it has ended; no
\* canonical directory is read twice and the nesting of walk calls never
\* exceeds the number of directories; when the walk has ended every real Ogg
\* file has been returned exactly once by a path through directories, so a
\* subtree that several links lead to contributes its files once.
C15_WalkTerminatesOncePerDir ==
  /\ [][(walk.pc # "idle" /\ walk' # walk) =>
          Remaining(walk') < Remaining(walk)]_vars
  /\ [](walk.pc = "walk" =>
          walk.stack # <<>> /\ Len(walk.stack) < MaxDepth)
  /\ [](walk.pc \in {"walk", "done"} =>
          /\ \A d \in RealDirs : Count(walk.entered, LAMBDA x : x = d) <= 1
          /\ Len(walk.stack) <= Cardinality(RealDirs))
  /\ [](walk.pc = "done" =>
          \A f \in RealOggFiles :
            Count(walk.out,
                  LAMBDA p : NamesThroughDirs(walk.fs, p, f)) = 1)

\* a walk ended on a tree where a/z -> a loops and 0.ogg -> a leads to the
\* same directory from the root
C15_Witness ==
  /\ walk.pc = "done"
  /\ [at |-> <<"a">>, name |-> "z", to |-> <<"a">>] \in walk.fs
  /\ [at |-> <<>>, name |-> "0.ogg", to |-> <<"a">>] \in walk.fs
  /\ <<"0.ogg", "s.ogg">> \in Elems(walk.out)

\* the pages a stream was made of, in order
SrcPages(st) == [i \in 1..Len(st.items) |-> st.items[i].page]

\* C16: reading a stream of well-formed pages, with or without garbage
\* before the capture patterns, returns the pages it was made of, byte for
\* byte and in order: what has been returned so far is always an initial
\* part of them, and the error that ends the reading comes after all of
\* them and is the end of input.
C16_PageReaderRoundTrip ==
  /\ ogg.pc \in {"read", "done"} =>
       /\ Len(ogg.pages) <= Len(ogg.src.items)
       /\ ogg.pages = SubSeq(SrcPages(ogg.src), 1, Len(ogg.pages))
  /\ ogg.pc = "done" =>
       /\ ogg.pages = SrcPages(ogg.src)
       /\ ogg.err = "EOF"

\* two pages were read back, the second found behind the garbage "Ogg" and
\* holding the capture pattern in its body, with garbage left at the end
C16_Witness ==
  /\ ogg.pc = "done"
  /\ Len(ogg.pages) = 2
  /\ ogg.src.items[2].garbage = <<79, 103, 103>>
  /\ ogg.pages[2] = MkPage(0, <<2, 2>>, OggS)
  /\ ogg.src.trail # <<>>

\* C17: the playlist /base/list.txt with the lines "# comment", a blank
\* line, "file '/x/y.wav'" and "relative.wav" yields /x/y.wav and then
\* /base/relative.wav when both files exist, and /base/relative.wav alone
\* when /x/y.wav does not exist.
C17_PlaylistExample ==
  (/\ pl.pc = "done"
   /\ pl.in.lines = << <<"#", " ", "comment">>, <<>>,
                       <<"file", " ", "'", "/", "x", "/", "y.wav", "'">>,
                       <<"relative.wav">> >>
   /\ pl.in.relExist) =>
     pl.out = IF pl.in.absExist
              THEN << <<"/", "x", "/", "y.wav">>,
                      <<"/", "base", "/", "relative.wav">> >>
              ELSE << <<"/", "base", "/", "relative.wav">> >>

\* C18: what GetHeaderCopy returns is nil when no SetHeader had stored
\* anything before the call took the read lock, and otherwise the whole
\* byte sequence of one SetHeader call, the latest stored by then; it is in
\* a buffer of its own: overwriting it leaves the cache, and what the other
\* callers were returned, as they were.  The cache always shows nothing or
\* the whole argument of one SetHeader call.
C18_HeaderSetWhole ==
  /\ [](hc.pc = "run" =>
          /\ \A g \in Getters : hc.get[g].pc = "ret" =>
                View(hc.heap, hc.get[g].out) =
                  IF hc.get[g].at = 0 THEN <<>>
                  ELSE hc.heap[<<"h", hc.get[g].at>>]
          /\ View(hc.heap, hc.header) =
                IF hc.assigned = 0 THEN <<>>
                ELSE hc.heap[<<"h", hc.assigned>>])
  /\ [][hc.pc = "run" =>
          \A g \in Getters :
            (hc.get[g].pc = "ret" /\ hc'.get[g].pc = "end") =>
              /\ View(hc'.heap, hc'.header) = View(hc.heap, hc.header)
              /\ \A f \in Getters \ {g} :
                    View(hc'.heap, hc'.get[f].out) =
                      View(hc.heap, hc.get[f].out)]_vars

\* one caller was returned the first header whole and the other the second,
\* of another length, and both overwrote what they got
C18_Witness ==
  /\ hc.pc = "run"
  /\ \E g, f \in Getters :
       /\ hc.get[g].pc = "end" /\ hc.get[g].at = 1
       /\ hc.get[f].pc = "end" /\ hc.get[f].at = 2
       /\ hc.get[g].out.len # hc.get[f].out.len
  /\ hc.set.pc = "end"

\* C19: the header cache changes only where streamOgg tests the header
\* finder after the first loop, only when the finder is done, and to what
\* was gathered; what was gathered is the pages read from the file since it
\* was opened, in order, up to the page in hand; that place is reached only
\* from the first loop and left only for the second loop or the next file,
\* so at most once per file; a file whose first loop ends without the
\* finder being done leaves the cache as it was.
C19_SetHeaderOncePerFile ==
  [][ /\ header' # header =>
           /\ prodPc = "sethdr" /\ vhDone
           /\ headerBuf # <<>> /\ header' = headerBuf
           /\ Last(headerBuf) = read
      /\ (prodPc = "sethdr" /\ prodPc' # "sethdr") =>
           /\ prodPc' \in {"bodysend", "open"}
           /\ header' = headerBuf
      /\ prodPc' = "sethdr" => prodPc \in {"hdrsend", "sethdr"}
      /\ (prodPc' = "hdrsend" /\ read' # read) =>
           /\ prodPc \in {"open", "hdrsend"}
           /\ read' = read + 1
           /\ headerBuf' = IF prodPc = "open" THEN <<read'>>
                            ELSE Append(headerBuf, read')
      /\ (prodPc = "hdrsend" /\ prodPc' = "sethdr") =>
           vhDone /\ UNCHANGED <<headerBuf, read>>
      /\ (prodPc \in {"open", "hdrsend"} /\ prodPc' # prodPc
            /\ prodPc' \in {"open", "bodysend"}) =>
           ~vhDone' /\ header' = header ]_vars

\* the first file's two header pages were cached; the second file ended
\* its first loop after one page without the finder being done, and the
\* cache still holds the first file's pages
C19_Witness ==
  /\ header = <<1, 2>>
  /\ headerBuf = <<3>>
  /\ ~vhDone
  /\ prodPc = "open"

\* the segments of the pages fed, each with the header type of its page
\* when it is the first of the page and 0 otherwise; a page without segments
\* gives one entry of no bytes that ends no packet
RECURSIVE Segments(_)
Segments(fed) ==
  IF fed = <<>> THEN <<>>
  ELSE LET d == Head(fed)
       IN  (IF d.segs = <<>>
            THEN << [bytes |-> <<>>, first |-> TRUE, flag |-> d.hdrType % 2,
                     none |-> TRUE] >>
            ELSE [i \in 1..Len(d.segs) |->
                    [bytes |-> d.segs[i], first |-> i = 1,
                     flag |-> d.hdrType % 2, none |-> FALSE]])
           \o Segments(Tail(fed))

\* segment j ends a packet
EndsPacket(sg, j) == ~sg[j].none /\ Len(sg[j].bytes) < 255

\* the segment the packet ending at segment j starts with: the nearest one
\* at or before j that follows a packet end or opens a page without the
\* continuation flag
PacketStart(sg, j) ==
  CHOOSE i \in 1..j :
    /\ \/ i = 1
       \/ EndsPacket(sg, i - 1)
       \/ sg[i].first /\ sg[i].flag = 0
    /\ \A k \in (i + 1)..j :
         ~(EndsPacket(sg, k - 1) \/ (sg[k].first /\ sg[k].flag = 0))

PacketAt(sg, j) ==
  Flatten([k \in 1..(j + 1 - PacketStart(sg, j)) |->
             sg[PacketStart(sg, j) + k - 1].bytes])

IsVorbisHeader(pkt) ==
  /\ Len(pkt) >= 7
  /\ pkt[1] \in {1, 3, 5}
  /\ SubSeq(pkt, 2, 7) = VorbisTag

\* how many Vorbis header packets the pages fed have completed
HeadersCompleted(fed) ==
  LET sg == Segments(fed)
  IN  Cardinality({j \in 1..Len(sg) :
                     EndsPacket(sg, j) /\ IsVorbisHeader(PacketAt(sg, j))})

\* the bytes of the packet the pages fed have left unfinished
Unfinished(fed) ==
  LET sg == Segments(fed)
  IN  IF sg = <<>> \/ EndsPacket(sg, Len(sg)) THEN <<>>
      ELSE PacketAt(sg, Len(sg))

\* C20: after any pages of a file have been fed, done() holds exactly when
\* they have completed three or more packets that start with a type byte
\* 1, 3 or 5 and "vorbis", where a packet ends at the first lacing value
\* below 255 and runs across a page boundary only into a page with the
\* continuation flag; the packet buffer holds the unfinished packet; and
\* done() stays true once true.
C20_HeaderDetection ==
  /\ [](vh.pc = "feed" =>
          /\ done(vh.f) = (HeadersCompleted(vh.fed) >= 3)
          /\ vh.f.packetBuf = Unfinished(vh.fed))
  /\ [][(vh.pc = "feed" /\ done(vh.f)) => done(vh'.f)]_vars

\* two headers and the start of a third on the first two pages, the third
\* completed by a page with the continuation flag, then one more page
C20_Witness ==
  /\ vh.pc = "feed"
  /\ Len(vh.fed) = 4
  /\ done(vh.f)
  /\ HeadersCompleted(SubSeq(vh.fed, 1, 2)) = 2
  /\ Unfinished(SubSeq(vh.fed, 1, 2)) # <<>>
  /\ vh.fed[3].hdrType % 2 = 1
  /\ HeadersCompleted(SubSeq(vh.fed, 1, 3)) = 3

\* a step of the producer, not of whoever edits the disk
ProducerStep == cyc.pc # "idle" /\ cyc' # cyc /\ cyc'.disk = cyc.disk

\* C21: the producer always has a next step and comes back to loading the
\* list again and again; a load that fails or gives no entry is followed by
\* the rescan sleep and then another load; a load that gives entries starts
\* a cycle over exactly what the disk gives at that moment (in that order,
\* or in any order when shuffling); the list is not changed during the
\* cycle; the entries are played in turn and the last one is followed by
\* another load; no cycle starts otherwise.
C21_ProducerLoopsForever ==
  /\ [](cyc.pc # "idle" => ENABLED CycStep)
  /\ [](cyc.pc # "idle" => <>(cyc.pc = "load"))
  /\ [][ProducerStep =>
          /\ cyc.pc = "load" =>
               IF cyc.disk.err \/ cyc.disk.files = <<>>
               THEN cyc'.pc = "sleep"
               ELSE /\ cyc'.pc = "play" /\ cyc'.idx = 1
                    /\ cyc'.files \in Shuffles(cyc.disk.files)
                    /\ ~cyc.shuffle => cyc'.files = cyc.disk.files
          /\ cyc.pc = "sleep" => cyc'.pc = "load"
          /\ cyc.pc = "play" =>
               /\ cyc'.files = cyc.files
               /\ cyc'.playing = cyc.files[cyc.idx]
               /\ IF cyc.idx < Len(cyc.files)
                  THEN cyc'.pc = "play" /\ cyc'.idx = cyc.idx + 1
                  ELSE cyc'.pc = "load"
          /\ (cyc'.pc = "play" /\ cyc.pc # "play") => cyc.pc = "load" ]_vars

\* a cycle has started over a list that does not hold the entry played
\* last, which could not be opened: the list was built again after an edit
C21_Witness ==
  /\ cyc.pc = "play" /\ cyc.idx = 1
  /\ cyc.playing # ""
  /\ ~cyc.opened
  /\ \A i \in 1..Len(cyc.files) : cyc.files[i] # cyc.playing

\* C22: whatever is wrong with a file, each unit read from it (and so sent
\* to b.broadcast) is one of the file's pages, whole and in its place in
\* the file's order; the reading ends with an error and nothing else is
\* sent from the file.
C22_OnlyWholePagesPublished ==
  ogg.pc \in {"read", "done"} =>
    /\ Len(ogg.pages) <= Len(ogg.src.items)
    /\ \A i \in 1..Len(ogg.pages) : ogg.pages[i] = ogg.src.items[i].page

\* the responses that end a connection without a stream
FinalReplies == {Malformed, BadLength, BodyError, Index, NotFound}

\* C23: a connection answered a protocol error, the index page or not found
\* has never been registered (it is no subscriber, has no queue contents, no
\* closed channel, no frame), and the step that answers it leaves the
\* subscriber set, every queue and the header cache as they were; a
\* subscriber is added only for a connection whose request was a valid
\* /radio request, one at a time, and only if it was never added before.
C23_OnlyRadioRegisters ==
  /\ [](\A s \in Conns :
          (wire[s] # <<>> /\ wire[s][1] \in FinalReplies) =>
            /\ pc[s] = "done" /\ Len(wire[s]) = 1
            /\ s \notin subs /\ queue[s] = <<>> /\ closes[s] = 0
            /\ got[s] = <<>>)
  /\ [][\A s \in Conns :
          /\ (wire[s] = <<>> /\ wire'[s] # <<>>
                /\ wire'[s][1] \in FinalReplies) =>
               UNCHANGED <<subs, queue, header, closes>>
          /\ (s \in subs' /\ s \notin subs) =>
               /\ RadioRequest(req[s])
               /\ wire[s] # <<>> /\ wire[s][1] = RadioStatus
               /\ subs' = subs \cup {s}
               /\ closes[s] = 0 /\ got[s] = <<>> /\ queue[s] = <<>> ]_vars

\* next to a registered listener with a frame in its queue, a connection
\* was answered not found
C23_Witness ==
  \E s, t \in Conns :
    /\ wire[s] = <<NotFound>>
    /\ t \in subs /\ queue[t] # <<>>

\* C24: when Pace has returned, the time since the throttle's start is at
\* least written / targetBps seconds.
C24_PaceKeepsRate ==
  (th.pc = "run" /\ th.calls > 0) =>
    (th.now - th.t.start) * th.t.targetBps >= th.t.written * Second

\* C25: a channel is closed at most once, and exactly when its subscriber
\* leaves the subscriber set: a member of the set is open, every removal
\* from the set closes the channel, nothing else closes one, a closed
\* channel is never added again, and a frame is put only into the queue
\* of a member of the set, whose channel is open.
C25_ClosedIffRemoved ==
  /\ [](\A s \in Conns : closes[s] <= 1 /\ (s \in subs => closes[s] = 0))
  /\ [][\A s \in Conns :
          /\ closes'[s] # closes[s] =>
               /\ closes[s] = 0 /\ closes'[s] = 1
               /\ s \in subs /\ s \notin subs'
          /\ (s \in subs /\ s \notin subs') => closes'[s] = 1
          /\ (s \notin subs /\ s \in subs') => closes[s] = 0
          /\ Len(queue'[s]) > Len(queue[s]) =>
               /\ s \in subs /\ closes[s] = 0
               /\ closes'[s] = 0 ]_vars

\* a listener all of whose writes succeeded has ended: its channel was
\* closed by an eviction, and its own unregistration found it gone
C25_Witness ==
  \E s \in Conns :
    /\ pc[s] = "done" /\ closes[s] = 1
    /\ wire[s] = <<RadioStatus, Page(1)>>
    /\ runPc = "select"

\* C26: in the Ogg build, whenever Run is back at its select, b.subCount is
\* the number of subscribers in b.subs, and it is never negative.
C26_ListenerCountOgg ==
  /\ subCount >= 0
  /\ runPc = "select" => subCount = Cardinality(subs)

\* C27: in the mp3 build, whenever Run is back at its select, Count() is the
\* number of subscribers in b.subs, and it is never negative.
C27_CountMatchesSubs ==
  /\ subCountAtomic >= 0
  /\ runPc = "select" => subCountAtomic = Cardinality(subs)

\* one of two listeners has been evicted and has ended, the other is still
\* registered
C27_Witness ==
  \E s, t \in Conns :
    /\ runPc = "select"
    /\ pc[s] = "done" /\ closes[s] = 1
    /\ wire[s] = <<RadioStatus, Page(1)>>
    /\ t \in subs
    /\ subCountAtomic = 1

\* the cached header a listener was sent: the pages it holds, <<>> if none
HeaderSent(s) ==
  IF Len(wire[s]) >= 2 /\ wire[s][2].k = "hdr" THEN wire[s][2].v ELSE <<>>

\* C28: a listener that was sent a cached header and has received a frame:
\* the file the producer is in did not begin after the header's pages and
\* at or before that first frame (no file begins between the two).
C28_HeaderOfFirstFramesFile ==
  \A s \in Conns :
    (HeaderSent(s) # <<>> /\ got[s] # <<>> /\ headerBuf # <<>>) =>
      ~(Last(HeaderSent(s)) < headerBuf[1] /\ headerBuf[1] <= got[s][1])

\* C29: a listener that was sent a cached header never receives one of the
\* header's pages through its queue.
C29_NoHeaderPageTwice ==
  \A s \in Conns :
    \A i \in 1..Len(got[s]) : got[s][i] \notin Elems(HeaderSent(s))

\* the type bytes of the Vorbis header packets the pages fed have completed
HeaderTypesSeen(fed) ==
  LET sg == Segments(fed)
  IN  { PacketAt(sg, j)[1] :
          j \in {k \in 1..Len(sg) :
                   EndsPacket(sg, k) /\ IsVorbisHeader(PacketAt(sg, k))} }

\* C30: whenever done() holds, the pages fed have completed a header packet
\* of each of the types 1, 3 and 5.
C30_AllThreeHeaderTypes ==
  (vh.pc = "feed" /\ done(vh.f)) => HeaderTypesSeen(vh.fed) = {1, 3, 5}

====
